---- MODULE Spec2Model ----
(***************************************************************************)
(* A model of prusti-dev's permission algebra                              *)
(* (prusti-viper/src/encoder/foldunfold/perm.rs) and of its procedure      *)
(* encoder (src/encoder/procedure_encoder.rs), and of its error reports    *)
(*                                                                         *)
(* (prusti-viper/src/encoder/errors/prusti_error.rs).                      *)
(*                                                                         *)
(* and of its support status                                              *)
(* (prusti-filter/src/validators/support_status.rs).                       *)
(*                                                                         *)
(* Seven specifications share the variables:                                *)
(*   SpecDiff  applies perm_difference to bounded permission sets,         *)
(*   SpecSet   runs PermSet::add / PermSet::remove,                        *)
(*   SpecEnc   runs ProcedureEncoder::encode over bounded source CFGs,     *)
(*   SpecLower applies encode_statement / encode_terminator to one         *)
(*             statement or terminator,                                    *)
(*   SpecErr   creates, changes and emits one PrustiError,                 *)
(*   SpecAmount  runs Perm::init_perm_amount / update_perm_amount,         *)
(*   SpecSupport runs SupportStatus::partially / unsupported /             *)
(*               interesting.                                              *)
(***************************************************************************)
EXTENDS Integers, Sequences, FiniteSets, TLC

VARIABLES
    left, right, res,             \* perm_difference: arguments and outcome
    acc_perms, pred_perms, hist,  \* PermSet: the two maps, and the last calls
    mir,         \* encode: the procedure, as far as encode has read it
    pc, at,      \* encode: the phase, and the block the phase's walk is at
    cfg_method,  \* encode: the CfgMethod being built
    cfg_block_of,  \* encode: cfg_blocks, the map from source blocks to CFG blocks
    ids,         \* encode: the start, spec, abort and return blocks
    temps,       \* encode: the counter of fresh local variables
    log,         \* encode: what encode has done so far, in order
    lowIn, lowOut,  \* one statement or terminator lowered on its own
    config,      \* PrustiError: the configuration flags its constructors read
    error,       \* PrustiError: the error value, once created
    reported,    \* PrustiError: what emit handed to the compiler's interface
    owned,       \* Perm: one perm, and the last call that changed its amount
    support_status  \* SupportStatus: the three sets, and the last call

permVars == <<left, right, res>>
setVars == <<acc_perms, pred_perms, hist>>
encVars == <<mir, pc, at, cfg_method, cfg_block_of, ids, temps, log>>
lowVars == <<lowIn, lowOut>>
errVars == <<config, error, reported>>
amtVars == <<owned>>
supVars == <<support_status>>
vars == <<left, right, res, acc_perms, pred_perms, hist,
          mir, pc, at, cfg_method, cfg_block_of, ids, temps, log, lowIn, lowOut,
          config, error, reported, owned, support_status>>

(***************************************************************************)
(* Bounds                                                                  *)
(***************************************************************************)
\* perms held by left and right together in one call of perm_difference
MaxPerms == 3
\* calls of PermSet::add / PermSet::remove in one run
MaxOps == 3
\* arguments of an encoded procedure
MaxArgs == 2
\* source blocks the CFG walk of an encoded procedure visits
MaxBlocks == 2
\* source blocks registered in cfg_blocks when one terminator is lowered
MaxRegistered == 2

\* A value computed once and named in what follows (a Rust `let`)
With(value, Body(_)) == Body(value)

With2(value1, value2, Body(_, _)) == Body(value1, value2)

(***************************************************************************)
(* Places and permissions (perm.rs:17-143)                                 *)
(***************************************************************************)
\* vir::Expr places: a local followed by field projections; x, x.f, x.f.g
LongestPlace == <<"x", "f", "g">>

Places == { SubSeq(LongestPlace, 1, n) : n \in 1..Len(LongestPlace) }

\* vir::PermAmount as perm.rs names its values
PermAmount == {"Unset", "Read", "Write"}

PermKind == {"Acc", "Pred"}

\* enum Perm { Acc(place, amount), Pred(place, amount) }
Perm == [kind : PermKind, place : Places, amount : PermAmount]

acc(place, perm_amount) == [kind |-> "Acc", place |-> place, amount |-> perm_amount]

pred(place, perm_amount) == [kind |-> "Pred", place |-> place, amount |-> perm_amount]

is_acc(perm) == perm.kind = "Acc"

is_pred(perm) == perm.kind = "Pred"

get_perm_amount(perm) == perm.amount

get_place(perm) == perm.place

\* vir::Expr::has_prefix: other is the place itself or one it is reached through
has_prefix(place, other) ==
    /\ Len(other) <= Len(place)
    /\ SubSeq(place, 1, Len(other)) = other

has_proper_prefix(place, other) == has_prefix(place, other) /\ place # other

\* PermAmount::is_valid_for_specs
is_valid_for_specs(amount) == amount # "Unset"

(***************************************************************************)
(* perm_difference (perm.rs:275-322)                                       *)
(***************************************************************************)
\* A HashMap<vir::Expr, PermAmount> is a function from the places it holds.
EmptyMap == [p \in {} |-> "Unset"]

MapRemove(m, place) == [p \in (DOMAIN m) \ {place} |-> m[p]]

\* The outcome of a call: a panic, or the value returned.
Panic == [panicked |-> TRUE, perms |-> {}]

Returned(perms) == [panicked |-> FALSE, perms |-> perms]

\* iter().filter(kind).map(|p| (place, amount)).collect() into a HashMap: a
\* later insert of the same place replaces the earlier one, and the HashSet
\* iterates in an unspecified order, so any amount the set holds for a place
\* may be the one that stays.
CollectMaps(perms, kind) ==
    LET held == { p \in perms : p.kind = kind }
        dom == { get_place(p) : p \in held }
    IN  { m \in [dom -> PermAmount] :
            \A pl \in dom : [kind |-> kind, place |-> pl, amount |-> m[pl]] \in held }

\* The match without its (Read, Read) arm
AmountsSubtractNoReadRead(left_perm_amount, right_perm_amount) ==
    \/ left_perm_amount = "Read" /\ right_perm_amount = "Write"
    \/ left_perm_amount = "Write" /\ right_perm_amount = "Write"

\* The match without its (Read, Write) arm: right may not hold more than left
AmountsSubtractStrict(left_perm_amount, right_perm_amount) ==
    \/ left_perm_amount = "Read" /\ right_perm_amount = "Read"
    \/ left_perm_amount = "Write" /\ right_perm_amount = "Write"

\* The match of lines 284-293 on (left amount, right amount).
AmountsSubtract(left_perm_amount, right_perm_amount) ==
    \/ left_perm_amount = "Read" /\ right_perm_amount = "Read"
    \/ left_perm_amount = "Read" /\ right_perm_amount = "Write"
    \/ left_perm_amount = "Write" /\ right_perm_amount = "Write"

\* The loop with the (Read, Write) arm leaving the entry of left in place
RECURSIVE PlaceDiffLoopKeepsRead(_, _, _)
PlaceDiffLoopKeepsRead(l, r, todo) ==
    IF todo = {} THEN [panicked |-> FALSE, map |-> l]
    ELSE LET place == CHOOSE p \in todo : TRUE
         IN  IF place \in DOMAIN l
             THEN IF AmountsSubtract(l[place], r[place])
                  THEN IF l[place] = "Read" /\ r[place] = "Write"
                       THEN PlaceDiffLoopKeepsRead(l, r, todo \ {place})
                       ELSE PlaceDiffLoopKeepsRead(MapRemove(l, place), r, todo \ {place})
                  ELSE [panicked |-> TRUE, map |-> EmptyMap]
             ELSE PlaceDiffLoopKeepsRead(l, r, todo \ {place})

\* The loop over right.drain(): todo is what is left of right, l what left has
\* become. The result is [panicked, map].
RECURSIVE PlaceDiffLoop(_, _, _)
PlaceDiffLoop(l, r, todo) ==
    IF todo = {} THEN [panicked |-> FALSE, map |-> l]
    ELSE LET place == CHOOSE p \in todo : TRUE
         IN  IF place \in DOMAIN l
             THEN IF AmountsSubtract(l[place], r[place])
                  THEN PlaceDiffLoop(MapRemove(l, place), r, todo \ {place})
                  ELSE [panicked |-> TRUE, map |-> EmptyMap]
             ELSE PlaceDiffLoop(l, r, todo \ {place})

\* The difference taken by prefix the wrong way round: a place of right also
\* removes the places of left it is reached through (x.f removes x).
place_perm_difference_parents(l, r) ==
    LET exact == PlaceDiffLoop(l, r, DOMAIN r)
    IN  IF exact.panicked THEN exact
        ELSE [panicked |-> FALSE,
              map |-> [p \in { q \in DOMAIN exact.map :
                                 \A rp \in DOMAIN r : ~has_proper_prefix(rp, q) }
                       |-> exact.map[p]]]

place_perm_difference(l, r) == PlaceDiffLoop(l, r, DOMAIN r)

\* perm_difference with each kind of left taken against the other kind of right
PermDifferenceOfCrossed(left_acc, right_acc, left_pred, right_pred) ==
    LET accs == place_perm_difference(left_acc, right_pred)
        preds == place_perm_difference(left_pred, right_acc)
    IN  IF accs.panicked \/ preds.panicked THEN Panic
        ELSE Returned({ acc(p, accs.map[p]) : p \in DOMAIN accs.map }
                      \cup { pred(p, preds.map[p]) : p \in DOMAIN preds.map })

\* perm_difference once the four maps are collected.
PermDifferenceOf(left_acc, right_acc, left_pred, right_pred) ==
    LET accs == place_perm_difference(left_acc, right_acc)
        preds == place_perm_difference(left_pred, right_pred)
    IN  IF accs.panicked \/ preds.panicked THEN Panic
        ELSE Returned({ acc(p, accs.map[p]) : p \in DOMAIN accs.map }
                      \cup { pred(p, preds.map[p]) : p \in DOMAIN preds.map })

\* Every outcome perm_difference(l, r) can have.
perm_difference(l, r) ==
    { PermDifferenceOf(la, ra, lp, rp) :
        la \in CollectMaps(l, "Acc"), ra \in CollectMaps(r, "Acc"),
        lp \in CollectMaps(l, "Pred"), rp \in CollectMaps(r, "Pred") }

(***************************************************************************)
(* PermSet (perm.rs:168-238)                                               *)
(***************************************************************************)
\* HashMap::insert: the place's entry is set, replacing any entry it had.
MapInsert(m, place, amount) ==
    [p \in (DOMAIN m) \cup {place} |-> IF p = place THEN amount ELSE m[p]]

\* PermSet::add inserting the place in both maps
add_both_maps(set, perm) ==
    <<MapInsert(set[1], perm.place, perm.amount),
      MapInsert(set[2], perm.place, perm.amount)>>

\* PermSet::add, on the pair <<acc_perms, pred_perms>>
add(set, perm) ==
    IF perm.kind = "Acc"
    THEN <<MapInsert(set[1], perm.place, perm.amount), set[2]>>
    ELSE <<set[1], MapInsert(set[2], perm.place, perm.amount)>>

\* PermSet::remove with the two maps confused
remove_other_map(set, perm) ==
    IF perm.kind = "Acc"
    THEN <<set[1], MapRemove(set[2], get_place(perm))>>
    ELSE <<MapRemove(set[1], get_place(perm)), set[2]>>

\* PermSet::remove
remove(set, perm) ==
    IF perm.kind = "Acc"
    THEN <<MapRemove(set[1], get_place(perm)), set[2]>>
    ELSE <<set[1], MapRemove(set[2], get_place(perm))>>

\* PermSet::contains answering for the amount held as well as for the place
contains_amount(set, perm) ==
    IF perm.kind = "Acc"
    THEN get_place(perm) \in DOMAIN set[1] /\ set[1][get_place(perm)] = perm.amount
    ELSE get_place(perm) \in DOMAIN set[2] /\ set[2][get_place(perm)] = perm.amount

\* PermSet::contains
contains(set, perm) ==
    IF perm.kind = "Acc"
    THEN get_place(perm) \in DOMAIN set[1]
    ELSE get_place(perm) \in DOMAIN set[2]

\* PermSet::perms
perms(set) ==
    { acc(p, set[1][p]) : p \in DOMAIN set[1] }
    \cup { pred(p, set[2][p]) : p \in DOMAIN set[2] }

(***************************************************************************)
(* The source program (rustc::mir) the procedure encoder reads             *)
(***************************************************************************)
\* Types of the modelled crate: bool, i32, &i32, (i32, bool), a struct S with
\* the fields a: i32 and b: bool, an enum E with the variants
\* 0 {a: i32} and 1 {a: i32, b: bool}, a tuple struct T(i32, bool), whose
\* fields rustc names 0 and 1, the tuple (i32, E), and the recursive struct
\* L with the fields v: i32 and next: &L.
Types == {"bool", "i32", "ref", "tup", "S", "E", "T", "pair", "L", "refL"}

\* ty.sty
TyKind(ty) ==
    CASE ty = "bool" -> "TyBool"
      [] ty = "i32" -> "TyInt"
      [] ty \in {"ref", "refL"} -> "TyRef"
      [] ty \in {"tup", "pair"} -> "TyTuple"
      [] OTHER -> "TyAdt"

\* TyTuple(elems, _)
TupleElems(ty) == IF ty = "pair" THEN <<"i32", "E">> ELSE <<"i32", "bool">>

\* TyRef(_, TypeAndMut { ty, .. })
RefTarget(ty) == IF ty = "refL" THEN "L" ELSE "i32"

\* adt_def.variants: per variant the fields as [name, ty]
AdtVariants(ty) ==
    CASE ty = "S" ->
            << << [name |-> "a", ty |-> "i32"], [name |-> "b", ty |-> "bool"] >> >>
      [] ty = "T" ->
            << << [name |-> "0", ty |-> "i32"], [name |-> "1", ty |-> "bool"] >> >>
      [] ty = "L" ->
            << << [name |-> "v", ty |-> "i32"], [name |-> "next", ty |-> "refL"] >> >>
      [] OTHER ->
            << << [name |-> "a", ty |-> "i32"] >>,
               << [name |-> "a", ty |-> "i32"], [name |-> "b", ty |-> "bool"] >> >>

\* mir.local_decls: _0 is the return place, the arguments follow
LocalDecls == <<"i32", "i32", "bool", "tup", "S", "E", "ref", "T", "pair", "L", "L">>

\* get_rust_local_ty; locals count from _0
get_rust_local_ty(local) == LocalDecls[local + 1]

\* mir::Place: a local and the projections applied to it, innermost first
NoElems == SubSeq(<<[ek |-> "Deref", i |-> 0]>>, 1, 0)

Local(n) == [local |-> n, proj |-> NoElems]

Project(place, ek, i) ==
    [local |-> place.local, proj |-> Append(place.proj, [ek |-> ek, i |-> i])]

\* mir::Operand
Constant(c, ty) == [ok |-> "Constant", place |-> Local(0), c |-> c, ty |-> ty]

Copy(place) == [ok |-> "Copy", place |-> place, c |-> 0, ty |-> "i32"]

Move(place) == [ok |-> "Move", place |-> place, c |-> 0, ty |-> "i32"]

(***************************************************************************)
(* The Viper AST the encoder builds (viper::AstFactory)                    *)
(***************************************************************************)
\* A Viper field: tuple_<i>, struct_<name>, enum_<i>_<name>, val_ref, val_int,
\* val_bool, discriminant
FieldName(fk, i, nm) == [fk |-> fk, i |-> i, nm |-> nm]

NoFields == SubSeq(<<FieldName("val_int", 0, "")>>, 1, 0)

\* ast.local_var: a local variable; a place is a variable and the fields
\* accessed from it, outermost last
LocalVar(vk, n) == [var |-> [vk |-> vk, n |-> n], path |-> NoFields]

\* ast.field_access
field_access(base, field) == [var |-> base.var, path |-> Append(base.path, field)]

NoPlace == LocalVar("none", 0)

\* An operand of an expression: a place read, or a constant
PlaceAtom(place) == [t |-> "place", pl |-> place, c |-> 0]

ConstAtom(c) == [t |-> "const", pl |-> NoPlace, c |-> c]

NoAtom == [t |-> "none", pl |-> NoPlace, c |-> 0]

\* Expressions
PlaceExpr(place) == [e |-> "atom", a |-> PlaceAtom(place), b |-> NoAtom]

ConstExpr(c) == [e |-> "atom", a |-> ConstAtom(c), b |-> NoAtom]

null_lit == [e |-> "null", a |-> NoAtom, b |-> NoAtom]

true_lit == [e |-> "true", a |-> NoAtom, b |-> NoAtom]

false_lit == [e |-> "false", a |-> NoAtom, b |-> NoAtom]

not(var) == [e |-> "not", a |-> PlaceAtom(var), b |-> NoAtom]

eq_cmp(var, c) == [e |-> "eq", a |-> PlaceAtom(var), b |-> ConstAtom(c)]

BinExpr(op, l, r) == [e |-> op, a |-> l.a, b |-> r.a]

NoExprs == SubSeq(<<null_lit>>, 1, 0)

NoPlaces == SubSeq(<<NoPlace>>, 1, 0)

\* Statements, one record shape for all: the place written (lhs), the
\* expression read (rhs), a name (comment tag, callee, predicate, label), the
\* arguments and result places of a call, the fields of an allocation
StmtOf(s, lhs, rhs, name, args, targets, fields) ==
    [s |-> s, lhs |-> lhs, rhs |-> rhs, name |-> name, args |-> args,
     targets |-> targets, fields |-> fields]

comment(tag) == StmtOf("comment", NoPlace, null_lit, tag, NoExprs, NoPlaces, NoFields)

local_var_assign(var, e) ==
    StmtOf("local_var_assign", var, e, "", NoExprs, NoPlaces, NoFields)

field_assign(place, e) ==
    StmtOf("field_assign", place, e, "", NoExprs, NoPlaces, NoFields)

\* ast.assign(lhs, rhs, lhs_is_local_var)
assign(lhs, e, is_local) ==
    IF is_local THEN local_var_assign(lhs, e) ELSE field_assign(lhs, e)

new_stmt(dst, fields) == StmtOf("new", dst, null_lit, "", NoExprs, NoPlaces, fields)

assert(e) == StmtOf("assert", NoPlace, e, "", NoExprs, NoPlaces, NoFields)

\* ast.full_perm
full_perm == [e |-> "full_perm", a |-> NoAtom, b |-> NoAtom]

\* inhale / exhale of predicate_access_predicate(predicate_access([arg],
\* predicate_name), full_perm): the permission is kept in args
inhale(arg, predicate_name) ==
    StmtOf("inhale", NoPlace, PlaceExpr(arg), predicate_name, <<full_perm>>, NoPlaces,
           NoFields)

exhale(arg, predicate_name) ==
    StmtOf("exhale", NoPlace, PlaceExpr(arg), predicate_name, <<full_perm>>, NoPlaces,
           NoFields)

label(name) == StmtOf("label", NoPlace, null_lit, name, NoExprs, NoPlaces, NoFields)

method_call(name, args, targets) ==
    StmtOf("method_call", NoPlace, null_lit, name, args, targets, NoFields)

NoStmts == SubSeq(<<comment("")>>, 1, 0)

(***************************************************************************)
(* Encoder helpers (encoder::Encoder: the type layout)                     *)
(***************************************************************************)
\* encode_value_field: the field holding the payload of a primitive or
\* reference type
encode_value_field(ty) ==
    CASE TyKind(ty) = "TyBool" -> FieldName("val_bool", 0, "")
      [] TyKind(ty) = "TyInt" -> FieldName("val_int", 0, "")
      [] OTHER -> FieldName("val_ref", 0, "")

encode_discriminant_field == FieldName("discriminant", 0, "")

\* format!("tuple_{}", field_num)
TupleField(field_num) == FieldName("tuple", field_num, "")

\* The field name of an ADT with the variant index left out of it
AdtFieldNoVariant(num_variants, variant_index, name) == FieldName("struct", 0, name)

\* format!("struct_{}", field.name) / format!("enum_{}_{}", variant_index, field.name)
AdtField(num_variants, variant_index, name) ==
    IF num_variants = 1 THEN FieldName("struct", 0, name)
    ELSE FieldName("enum", variant_index, name)

\* encode_type_fields: the fields of a type's heap cell, in order, each with
\* the type of the cell it points to ("" for a payload held in the field)
RECURSIVE VariantFields(_, _, _)
VariantFields(ty, v, n) ==
    IF n = 0 THEN SubSeq(<<[field |-> encode_discriminant_field, ty |-> ""]>>, 1, 0)
    ELSE Append(VariantFields(ty, v, n - 1),
                [field |-> AdtField(Len(AdtVariants(ty)), v - 1, AdtVariants(ty)[v][n].name),
                 ty |-> AdtVariants(ty)[v][n].ty])

RECURSIVE AllVariantFields(_, _)
AllVariantFields(ty, v) ==
    IF v = 0 THEN SubSeq(<<[field |-> encode_discriminant_field, ty |-> ""]>>, 1, 0)
    ELSE AllVariantFields(ty, v - 1) \o VariantFields(ty, v, Len(AdtVariants(ty)[v]))

encode_type_fields(ty) ==
    CASE TyKind(ty) \in {"TyBool", "TyInt", "TyRef"} ->
            <<[field |-> encode_value_field(ty), ty |-> ""]>>
      [] TyKind(ty) = "TyTuple" ->
            [i \in 1..Len(TupleElems(ty)) |->
                [field |-> TupleField(i - 1), ty |-> TupleElems(ty)[i]]]
      [] OTHER ->
            (IF Len(AdtVariants(ty)) > 1
             THEN <<[field |-> encode_discriminant_field, ty |-> ""]>>
             ELSE SubSeq(<<[field |-> encode_discriminant_field, ty |-> ""]>>, 1, 0))
            \o AllVariantFields(ty, Len(AdtVariants(ty)))

\* encode_type_predicate_use
encode_type_predicate_use(ty) == ty

(***************************************************************************)
(* Places (procedure_encoder.rs:577-705)                                   *)
(***************************************************************************)
\* encode_local: local _n as a Viper local variable
encode_local(local) == LocalVar("local", local)

\* A place encoded: ok is FALSE when the encoding panicked; variant is the
\* Option<usize> of a downcast, -1 for None.
Encoded(expr, ty, variant) == [ok |-> TRUE, expr |-> expr, ty |-> ty, variant |-> variant]

PlacePanic == [ok |-> FALSE, expr |-> NoPlace, ty |-> "", variant |-> -1]

\* encode_projection on the already encoded base
encode_projection(base, elem) ==
    IF ~base.ok THEN PlacePanic
    ELSE CASE elem.ek = "Field" ->
                (CASE TyKind(base.ty) \in {"TyBool", "TyInt", "TyRef"} -> PlacePanic
                   [] TyKind(base.ty) = "TyTuple" ->
                        IF elem.i < Len(TupleElems(base.ty))
                        THEN Encoded(field_access(base.expr, TupleField(elem.i)),
                                     TupleElems(base.ty)[elem.i + 1], -1)
                        ELSE PlacePanic
                   [] OTHER ->
                        LET variant_index == IF base.variant = -1 THEN 0 ELSE base.variant
                            variants == AdtVariants(base.ty)
                        IN  IF variant_index < Len(variants)
                               /\ elem.i < Len(variants[variant_index + 1])
                            THEN LET field == variants[variant_index + 1][elem.i + 1]
                                 IN  Encoded(field_access(base.expr,
                                                AdtField(Len(variants), variant_index, field.name)),
                                             field.ty, -1)
                            ELSE PlacePanic)
           [] elem.ek = "Deref" ->
                IF TyKind(base.ty) = "TyRef"
                THEN Encoded(field_access(base.expr, FieldName("val_ref", 0, "")),
                             RefTarget(base.ty), -1)
                ELSE PlacePanic
           [] elem.ek = "Downcast" -> Encoded(base.expr, base.ty, elem.i)
           [] OTHER -> PlacePanic

\* encode_place: the local, then its projections from the innermost out
RECURSIVE EncodePlaceUpTo(_, _)
EncodePlaceUpTo(place, n) ==
    IF n = 0
    THEN Encoded(encode_local(place.local), get_rust_local_ty(place.local), -1)
    ELSE encode_projection(EncodePlaceUpTo(place, n - 1), place.proj[n])

encode_place(place) == EncodePlaceUpTo(place, Len(place.proj))

\* eval_place: the value field of the encoded place
eval_place(place) ==
    With(encode_place(place), LAMBDA p : field_access(p.expr, encode_value_field(p.ty)))

is_place_encoded_as_local_var(place) == Len(place.proj) = 0

(***************************************************************************)
(* Operands, allocation and copy (procedure_encoder.rs:707-861)            *)
(***************************************************************************)
\* cfg_method.add_fresh_local_var: the n-th fresh local variable
FreshVar(n) == LocalVar("tmp", n)

\* encode_allocation: the statements, and the fresh-variable counter after
encode_allocation(dst, ty, dst_is_local_var, fresh) ==
    With(encode_type_fields(ty), LAMBDA field_name_type :
        LET fields == [i \in 1..Len(field_name_type) |-> field_name_type[i].field]
        IN  IF dst_is_local_var
            THEN [stmts |-> <<new_stmt(dst, fields)>>, fresh |-> fresh]
            ELSE [stmts |-> <<new_stmt(FreshVar(fresh), fields),
                              field_assign(dst, PlaceExpr(FreshVar(fresh)))>>,
                  fresh |-> fresh + 1])

\* The loop copying every field by one field assignment, a field that points
\* to a cell included
RECURSIVE CopyFieldsShallow(_, _, _, _, _)
CopyFieldsShallow(src, dst, fields_name_ty, i, fresh) ==
    IF i > Len(fields_name_ty) THEN [stmts |-> NoStmts, fresh |-> fresh]
    ELSE With(CopyFieldsShallow(src, dst, fields_name_ty, i + 1, fresh), LAMBDA rest :
            [stmts |-> <<field_assign(field_access(dst, fields_name_ty[i].field),
                                      PlaceExpr(field_access(src, fields_name_ty[i].field)))>>
                       \o rest.stmts,
             fresh |-> rest.fresh])

\* encode_copy, and its loop over the fields of a tuple or ADT (from field i on)
RECURSIVE encode_copy(_, _, _, _, _)
RECURSIVE CopyFields(_, _, _, _, _)
CopyFields(src, dst, fields_name_ty, i, fresh) ==
    IF i > Len(fields_name_ty) THEN [stmts |-> NoStmts, fresh |-> fresh]
    ELSE LET field == fields_name_ty[i].field
             inner_src == field_access(src, field)
             inner_dst == field_access(dst, field)
         IN  With(IF fields_name_ty[i].ty # ""
                  THEN encode_copy(inner_src, inner_dst, fields_name_ty[i].ty, FALSE, fresh)
                  ELSE [stmts |-> <<field_assign(inner_dst, PlaceExpr(inner_src))>>,
                        fresh |-> fresh],
                  LAMBDA this :
                      With(CopyFields(src, dst, fields_name_ty, i + 1, this.fresh),
                           LAMBDA rest :
                               [stmts |-> this.stmts \o rest.stmts, fresh |-> rest.fresh]))

encode_copy(src, dst, self_ty, dst_is_local_var, fresh) ==
    With2(encode_allocation(dst, self_ty, dst_is_local_var, fresh),
          encode_type_fields(self_ty),
          LAMBDA alloc, fields_name_ty :
    CASE TyKind(self_ty) \in {"TyBool", "TyInt"} ->
            [stmts |-> alloc.stmts \o
                       [i \in 1..Len(fields_name_ty) |->
                           field_assign(field_access(dst, fields_name_ty[i].field),
                                        PlaceExpr(field_access(src, fields_name_ty[i].field)))],
             fresh |-> alloc.fresh]
      [] TyKind(self_ty) = "TyRef" ->
            [stmts |-> Append(alloc.stmts,
                              field_assign(field_access(dst, FieldName("val_ref", 0, "")),
                                           PlaceExpr(field_access(src, FieldName("val_ref", 0, ""))))),
             fresh |-> alloc.fresh]
      [] OTHER ->
            With(CopyFields(src, dst, fields_name_ty, 1, alloc.fresh), LAMBDA inner :
                [stmts |-> alloc.stmts \o inner.stmts, fresh |-> inner.fresh]))

\* What evaluating an operand yields: the value, the statements to run before
\* and after the value is used, the counter; ok is FALSE on a panic.
OperandResult(value, before, after, fresh) ==
    [ok |-> TRUE, value |-> value, before |-> before, after |-> after, fresh |-> fresh]

OperandPanic ==
    [ok |-> FALSE, value |-> null_lit, before |-> NoStmts, after |-> NoStmts, fresh |-> 0]

\* eval_operand: the operand's value as an expression; it has no "before"
eval_operand(operand, fresh) ==
    CASE operand.ok = "Constant" ->
            OperandResult(ConstExpr(operand.c), NoStmts, NoStmts, fresh)
      [] operand.ok = "Copy" ->
            With(eval_place(operand.place), LAMBDA val_place :
                IF encode_place(operand.place).ok
                THEN OperandResult(PlaceExpr(val_place), NoStmts, NoStmts, fresh)
                ELSE OperandPanic)
      [] operand.ok = "Move" ->
            With2(encode_place(operand.place), eval_place(operand.place),
                  LAMBDA p, val_place :
                IF p.ok
                THEN LET null_stmt == assign(p.expr, null_lit,
                                             is_place_encoded_as_local_var(operand.place))
                     IN  OperandResult(PlaceExpr(val_place), NoStmts, <<null_stmt>>, fresh)
                ELSE OperandPanic)
      [] OTHER -> OperandPanic

\* encode_operand: the operand as a reference to a heap cell
encode_operand(operand, fresh) ==
    CASE operand.ok = "Move" ->
            With(encode_place(operand.place), LAMBDA p :
                IF p.ok
                THEN LET stmt == assign(p.expr, null_lit,
                                        is_place_encoded_as_local_var(operand.place))
                     IN  OperandResult(PlaceExpr(p.expr), NoStmts, <<stmt>>, fresh)
                ELSE OperandPanic)
      [] operand.ok = "Copy" ->
            With(encode_place(operand.place), LAMBDA p :
                IF p.ok
                THEN With(encode_copy(p.expr, FreshVar(fresh), p.ty, TRUE, fresh + 1),
                          LAMBDA copy :
                              OperandResult(PlaceExpr(FreshVar(fresh)), copy.stmts, NoStmts,
                                            copy.fresh))
                ELSE OperandPanic)
      [] operand.ok = "Constant" ->
            With(encode_allocation(FreshVar(fresh), operand.ty, TRUE, fresh + 1),
                 LAMBDA alloc :
                OperandResult(PlaceExpr(FreshVar(fresh)),
                              Append(alloc.stmts,
                                     field_assign(field_access(FreshVar(fresh),
                                                               encode_value_field(operand.ty)),
                                                  ConstExpr(operand.c))),
                              NoStmts, alloc.fresh))
      [] OTHER -> OperandPanic

(***************************************************************************)
(* Statements (procedure_encoder.rs:56-222, 863-950)                       *)
(***************************************************************************)
\* mir::Rvalue, one record shape for all kinds
NoOperands == SubSeq(<<Constant(0, "i32")>>, 1, 0)

NoAggregate == [ak |-> "", ty |-> "", variant |-> 0]

Use(operand) ==
    [rk |-> "Use", op |-> "", operands |-> <<operand>>, place |-> Local(0), agg |-> NoAggregate]

BinaryOp(op, l, r) ==
    [rk |-> "BinaryOp", op |-> op, operands |-> <<l, r>>, place |-> Local(0),
     agg |-> NoAggregate]

CheckedBinaryOp(op, l, r) ==
    [rk |-> "CheckedBinaryOp", op |-> op, operands |-> <<l, r>>, place |-> Local(0),
     agg |-> NoAggregate]

UnaryOp(op, operand) ==
    [rk |-> "UnaryOp", op |-> op, operands |-> <<operand>>, place |-> Local(0),
     agg |-> NoAggregate]

NullaryOp(op) ==
    [rk |-> "NullaryOp", op |-> op, operands |-> NoOperands, place |-> Local(0),
     agg |-> NoAggregate]

Discriminant(src) ==
    [rk |-> "Discriminant", op |-> "", operands |-> NoOperands, place |-> src,
     agg |-> NoAggregate]

Aggregate(ak, ty, variant, operands) ==
    [rk |-> "Aggregate", op |-> "", operands |-> operands, place |-> Local(0),
     agg |-> [ak |-> ak, ty |-> ty, variant |-> variant]]

Ref(place) ==
    [rk |-> "Ref", op |-> "", operands |-> NoOperands, place |-> place, agg |-> NoAggregate]

\* mir::StatementKind
Assign(lhs, rv) == [kind |-> "Assign", lhs |-> lhs, rv |-> rv]

OtherStatement(kind) == [kind |-> kind, lhs |-> Local(0), rv |-> NullaryOp("")]

\* What lowering a statement yields; ok is FALSE when it panicked
Lowered(stmts, fresh) == [ok |-> TRUE, stmts |-> stmts, fresh |-> fresh]

LowerPanic == [ok |-> FALSE, stmts |-> NoStmts, fresh |-> 0]

\* encode_bin_op_value; the other operators are unimplemented!()
BinOpEncoded(op) == op \in {"Gt", "Add", "Sub"}

encode_bin_op_value(op, l, r) == BinExpr(op, l, r)

\* The check of a binary operation answering false
EncodeBinOpCheckFalse(op, l, r) == false_lit

\* encode_bin_op_check (a TODO in the source: always true)
encode_bin_op_check(op, l, r) == true_lit

\* The loops of encode_assign_aggregate, from operand i on: the field written
\* for operand i is fields[i]
RECURSIVE AggregateFields(_, _, _, _, _)
AggregateFields(dst_var, fields, operands, i, fresh) ==
    IF i > Len(fields) THEN Lowered(NoStmts, fresh)
    ELSE IF i > Len(operands) THEN LowerPanic
    ELSE With(encode_operand(operands[i], fresh), LAMBDA enc :
            IF ~enc.ok THEN LowerPanic
            ELSE With(AggregateFields(dst_var, fields, operands, i + 1, enc.fresh),
                      LAMBDA rest :
                    IF ~rest.ok THEN LowerPanic
                    ELSE Lowered(enc.before
                                 \o <<field_assign(field_access(dst_var, fields[i]), enc.value)>>
                                 \o enc.after \o rest.stmts,
                                 rest.fresh)))

\* encode_assign_aggregate with the discriminant written after the fields
EncodeAssignAggregateDiscrLast(ty, aggregate, operands, fresh) ==
    With(encode_allocation(FreshVar(fresh), ty, TRUE, fresh + 1), LAMBDA alloc :
    LET dst_var == FreshVar(fresh)
        variants == AdtVariants(aggregate.ty)
        fields == IF aggregate.ak = "Tuple"
                  THEN [i \in 1..Len(operands) |-> TupleField(i - 1)]
                  ELSE [i \in 1..Len(variants[aggregate.variant + 1]) |->
                           AdtField(Len(variants), aggregate.variant,
                                    variants[aggregate.variant + 1][i].name)]
        discr == IF aggregate.ak = "Adt" /\ Len(variants) > 1
                 THEN <<field_assign(field_access(dst_var, encode_discriminant_field),
                                     ConstExpr(aggregate.variant))>>
                 ELSE NoStmts
    IN  With(AggregateFields(dst_var, fields, operands, 1, alloc.fresh), LAMBDA body :
            [ok |-> body.ok, value |-> PlaceExpr(dst_var),
             stmts |-> alloc.stmts \o body.stmts \o discr, fresh |-> body.fresh]))

\* encode_assign_aggregate: [ok, value, stmts, fresh]
encode_assign_aggregate(ty, aggregate, operands, fresh) ==
    With(encode_allocation(FreshVar(fresh), ty, TRUE, fresh + 1), LAMBDA alloc :
    LET dst_var == FreshVar(fresh)
    IN  CASE aggregate.ak = "Tuple" ->
                LET fields == [i \in 1..Len(operands) |-> TupleField(i - 1)]
                IN  With(AggregateFields(dst_var, fields, operands, 1, alloc.fresh),
                         LAMBDA body :
                        [ok |-> body.ok, value |-> PlaceExpr(dst_var),
                         stmts |-> alloc.stmts \o body.stmts, fresh |-> body.fresh])
          [] aggregate.ak = "Adt" ->
                LET variants == AdtVariants(aggregate.ty)
                    num_variants == Len(variants)
                    discr == IF num_variants > 1
                             THEN <<field_assign(field_access(dst_var, encode_discriminant_field),
                                                 ConstExpr(aggregate.variant))>>
                             ELSE NoStmts
                    variant_def == variants[aggregate.variant + 1]
                    fields == [i \in 1..Len(variant_def) |->
                                  AdtField(num_variants, aggregate.variant, variant_def[i].name)]
                IN  With(AggregateFields(dst_var, fields, operands, 1, alloc.fresh),
                         LAMBDA body :
                        [ok |-> body.ok, value |-> PlaceExpr(dst_var),
                         stmts |-> alloc.stmts \o discr \o body.stmts, fresh |-> body.fresh])
          [] OTHER -> [ok |-> FALSE, value |-> null_lit, stmts |-> NoStmts, fresh |-> 0])

\* The arm of Rvalue::Use with the move effects spliced before the assignment
EncodeUseEffectsFirst(stmt, fresh) ==
    With2(encode_place(stmt.lhs), encode_operand(stmt.rv.operands[1], fresh),
          LAMBDA lhs, enc :
        IF ~lhs.ok \/ ~enc.ok THEN LowerPanic
        ELSE Lowered(enc.before \o enc.after
                     \o <<assign(lhs.expr, enc.value,
                                 is_place_encoded_as_local_var(stmt.lhs))>>,
                     enc.fresh))

\* encode_statement, arm Rvalue::Use
EncodeUse(stmt, fresh) ==
    With2(encode_place(stmt.lhs), encode_operand(stmt.rv.operands[1], fresh),
          LAMBDA lhs, enc :
        IF ~lhs.ok \/ ~enc.ok THEN LowerPanic
        ELSE Lowered(enc.before
                     \o <<assign(lhs.expr, enc.value,
                                 is_place_encoded_as_local_var(stmt.lhs))>>
                     \o enc.after,
                     enc.fresh))

\* encode_statement, arm Rvalue::BinaryOp
EncodeBinaryOp(stmt, fresh) ==
    With(encode_place(stmt.lhs), LAMBDA lhs :
    With2(eval_operand(stmt.rv.operands[1], fresh), eval_operand(stmt.rv.operands[2], fresh),
          LAMBDA l, r :
        IF ~lhs.ok \/ ~l.ok \/ ~r.ok \/ ~BinOpEncoded(stmt.rv.op) THEN LowerPanic
        ELSE Lowered(<<field_assign(field_access(lhs.expr, encode_value_field(lhs.ty)),
                                    encode_bin_op_value(stmt.rv.op, l.value, r.value))>>
                     \o l.after \o r.after,
                     fresh)))

\* encode_statement, arm Rvalue::CheckedBinaryOp
EncodeCheckedBinaryOp(stmt, fresh) ==
    With(encode_place(stmt.lhs), LAMBDA lhs :
    With2(eval_operand(stmt.rv.operands[1], fresh), eval_operand(stmt.rv.operands[2], fresh),
          LAMBDA l, r :
        IF ~lhs.ok \/ ~l.ok \/ ~r.ok \/ ~BinOpEncoded(stmt.rv.op)
           \/ TyKind(lhs.ty) # "TyTuple"
        THEN LowerPanic
        ELSE LET elems == TupleElems(lhs.ty)
                 value_field == TupleField(0)
                 value_field_value == encode_value_field(elems[1])
                 check_field == TupleField(1)
                 check_field_value == encode_value_field(elems[2])
             IN  Lowered(<<field_assign(field_access(field_access(lhs.expr, value_field),
                                                     value_field_value),
                                        encode_bin_op_value(stmt.rv.op, l.value, r.value)),
                           field_assign(field_access(field_access(lhs.expr, check_field),
                                                     check_field_value),
                                        encode_bin_op_check(stmt.rv.op, l.value, r.value))>>
                         \o l.after \o r.after,
                         fresh)))

\* The arm with the value field of the destination written before the
\* temporary is assigned to the destination
EncodeDiscriminantWriteFirst(stmt, fresh) ==
    With2(encode_place(stmt.lhs), encode_place(stmt.rv.place), LAMBDA lhs, src :
    With(encode_allocation(FreshVar(fresh), lhs.ty, TRUE, fresh + 1), LAMBDA alloc :
        LET discr_var == FreshVar(fresh)
        IN  IF ~lhs.ok \/ ~src.ok THEN LowerPanic
            ELSE Lowered(alloc.stmts
                         \o <<field_assign(field_access(lhs.expr, encode_value_field(lhs.ty)),
                                           PlaceExpr(field_access(src.expr,
                                                                  encode_discriminant_field))),
                              assign(lhs.expr, PlaceExpr(discr_var),
                                     is_place_encoded_as_local_var(stmt.lhs))>>,
                         alloc.fresh)))

\* encode_statement, arm Rvalue::Discriminant
EncodeDiscriminant(stmt, fresh) ==
    With2(encode_place(stmt.lhs), encode_place(stmt.rv.place), LAMBDA lhs, src :
    With(encode_allocation(FreshVar(fresh), lhs.ty, TRUE, fresh + 1), LAMBDA alloc :
        LET discr_var == FreshVar(fresh)
        IN  IF ~lhs.ok \/ ~src.ok THEN LowerPanic
            ELSE Lowered(alloc.stmts
                         \o <<assign(lhs.expr, PlaceExpr(discr_var),
                                     is_place_encoded_as_local_var(stmt.lhs)),
                              field_assign(field_access(lhs.expr, encode_value_field(lhs.ty)),
                                           PlaceExpr(field_access(src.expr,
                                                                  encode_discriminant_field)))>>,
                         alloc.fresh)))

\* encode_statement, arm Rvalue::Aggregate
EncodeAggregate(stmt, fresh) ==
    With(encode_place(stmt.lhs), LAMBDA lhs :
    With(encode_assign_aggregate(lhs.ty, stmt.rv.agg, stmt.rv.operands, fresh), LAMBDA agg :
        IF ~lhs.ok \/ ~agg.ok THEN LowerPanic
        ELSE Lowered(Append(agg.stmts,
                            assign(lhs.expr, agg.value,
                                   is_place_encoded_as_local_var(stmt.lhs))),
                     agg.fresh)))

\* encode_statement, arm Rvalue::Ref
EncodeRef(stmt, fresh) ==
    With2(encode_place(stmt.lhs), encode_place(stmt.rv.place), LAMBDA lhs, place :
    With(encode_allocation(FreshVar(fresh), lhs.ty, TRUE, fresh + 1), LAMBDA alloc :
        LET ref_var == FreshVar(fresh)
        IN  IF ~lhs.ok \/ ~place.ok THEN LowerPanic
            ELSE Lowered(alloc.stmts
                         \o <<assign(lhs.expr, PlaceExpr(ref_var),
                                     is_place_encoded_as_local_var(stmt.lhs)),
                              field_assign(field_access(lhs.expr, encode_value_field(lhs.ty)),
                                           PlaceExpr(place.expr))>>,
                         alloc.fresh)))

\* encode_statement
encode_statement(stmt, fresh) ==
    CASE stmt.kind \in {"StorageDead", "StorageLive", "EndRegion"} -> Lowered(NoStmts, fresh)
      [] stmt.kind = "Assign" ->
            (CASE stmt.rv.rk = "Use" -> EncodeUse(stmt, fresh)
               [] stmt.rv.rk = "BinaryOp" -> EncodeBinaryOp(stmt, fresh)
               [] stmt.rv.rk = "CheckedBinaryOp" -> EncodeCheckedBinaryOp(stmt, fresh)
               [] stmt.rv.rk = "Discriminant" -> EncodeDiscriminant(stmt, fresh)
               [] stmt.rv.rk = "Aggregate" -> EncodeAggregate(stmt, fresh)
               [] stmt.rv.rk = "Ref" -> EncodeRef(stmt, fresh)
               [] OTHER -> LowerPanic)
      [] OTHER -> LowerPanic

(***************************************************************************)
(* Terminators (procedure_encoder.rs:224-419)                              *)
(***************************************************************************)
\* mir::TerminatorKind, one record shape for all kinds; destination is the
\* Option<(Place, BasicBlock)> of a call, a sequence of at most one pair
NoTargets == SubSeq(<<0>>, 1, 0)

NoDestination == SubSeq(<<[place |-> Local(0), target |-> 0]>>, 1, 0)

TerminatorOf(tk) ==
    [tk |-> tk, target |-> 0, targets |-> NoTargets, values |-> NoTargets,
     switch_ty |-> "", operand |-> Constant(0, "i32"), location |-> Local(0),
     func |-> "", args |-> NoOperands, destination |-> NoDestination,
     expected |-> FALSE]

Return == TerminatorOf("Return")

Goto(target) == [TerminatorOf("Goto") EXCEPT !.target = target]

SwitchInt(discr, switch_ty, values, targets) ==
    [TerminatorOf("SwitchInt") EXCEPT !.operand = discr, !.switch_ty = switch_ty,
                                      !.values = values, !.targets = targets]

Drop(location, target) ==
    [TerminatorOf("Drop") EXCEPT !.location = location, !.target = target]

FalseEdges(real_target) == [TerminatorOf("FalseEdges") EXCEPT !.target = real_target]

FalseUnwind(real_target) == [TerminatorOf("FalseUnwind") EXCEPT !.target = real_target]

DropAndReplace(location, value, target) ==
    [TerminatorOf("DropAndReplace") EXCEPT !.location = location, !.operand = value,
                                           !.target = target]

\* A call of the function item func; CallIndirect is any other callee
Call(func, args, destination) ==
    [TerminatorOf("Call") EXCEPT !.func = func, !.args = args,
                                 !.destination = destination]

CallIndirect(args, destination) ==
    [TerminatorOf("CallIndirect") EXCEPT !.args = args, !.destination = destination]

AssertTerminator(cond, expected, target) ==
    [TerminatorOf("Assert") EXCEPT !.operand = cond, !.expected = expected,
                                   !.target = target]

\* viper::Successor; Undefined is a block no successor was set for
NoGuards == SubSeq(<<[guard |-> null_lit, target |-> 0]>>, 1, 0)

SuccessorOf(k, target, guards) == [k |-> k, target |-> target, guards |-> guards]

SuccGoto(target) == SuccessorOf("Goto", target, NoGuards)

\* GotoSwitch(guarded targets, default target)
SuccGotoSwitch(guards, default) == SuccessorOf("GotoSwitch", default, guards)

SuccUnreachable == SuccessorOf("Unreachable", 0, NoGuards)

SuccReturn == SuccessorOf("Return", 0, NoGuards)

SuccUndefined == SuccessorOf("Undefined", 0, NoGuards)

\* What lowering a terminator yields; ok is FALSE when it panicked
LoweredTerm(stmts, successor, fresh) ==
    [ok |-> TRUE, stmts |-> stmts, successor |-> successor, fresh |-> fresh]

TermPanic == [ok |-> FALSE, stmts |-> NoStmts, successor |-> SuccUndefined, fresh |-> 0]

\* cfg_blocks.get(&target).unwrap_or(&spec_cfg_block)
TargetOrSpec(cfg_blocks, target, spec_cfg_block) ==
    IF target \in DOMAIN cfg_blocks THEN cfg_blocks[target] ELSE spec_cfg_block

\* The guard of a SwitchInt case with the boolean case not negated
SwitchGuardNoNegation(switch_ty, discr_var, value) ==
    IF TyKind(switch_ty) = "TyBool" THEN PlaceExpr(discr_var)
    ELSE eq_cmp(discr_var, value)

\* The guard of a SwitchInt case with every switched type taken for a boolean
SwitchGuardAsBool(switch_ty, discr_var, value) ==
    IF value = 0 THEN not(discr_var) ELSE PlaceExpr(discr_var)

\* The guard of one SwitchInt case (lines 266-279)
SwitchGuard(switch_ty, discr_var, value) ==
    IF TyKind(switch_ty) = "TyBool"
    THEN IF value = 0 THEN not(discr_var) ELSE PlaceExpr(discr_var)
    ELSE eq_cmp(discr_var, value)

\* encode_terminator, arm SwitchInt
EncodeSwitchInt(term, cfg_blocks, spec_cfg_block, fresh) ==
    With(eval_operand(term.operand, fresh + 1), LAMBDA discr :
    LET discr_var == FreshVar(fresh)
    IN  IF ~discr.ok \/ Len(term.targets) <= Len(term.values) THEN TermPanic
        ELSE LoweredTerm(
                <<local_var_assign(discr_var, discr.value)>> \o discr.after,
                SuccGotoSwitch(
                    [i \in 1..Len(term.values) |->
                        [guard |-> SwitchGuard(term.switch_ty, discr_var, term.values[i]),
                         target |-> TargetOrSpec(cfg_blocks, term.targets[i], spec_cfg_block)]],
                    TargetOrSpec(cfg_blocks, term.targets[Len(term.values) + 1],
                                 spec_cfg_block)),
                fresh + 1))

\* encode_terminator, arm DropAndReplace
EncodeDropAndReplace(term, cfg_blocks, spec_cfg_block, fresh) ==
    With2(encode_place(term.location), encode_operand(term.operand, fresh),
          LAMBDA loc, enc :
        IF ~loc.ok \/ ~enc.ok THEN TermPanic
        ELSE LoweredTerm(
                enc.before
                \o <<IF is_place_encoded_as_local_var(term.location)
                     THEN local_var_assign(loc.expr, enc.value)
                     ELSE field_assign(loc.expr, enc.value)>>
                \o enc.after,
                SuccGoto(TargetOrSpec(cfg_blocks, term.target, spec_cfg_block)),
                enc.fresh))

\* The loop over the arguments of a call, from argument i on:
\* [ok, encoded_args, stmts (the befores), stmts_after, fresh]
RECURSIVE CallArgs(_, _, _)
CallArgs(args, i, fresh) ==
    IF i > Len(args)
    THEN [ok |-> TRUE, encoded_args |-> NoExprs, stmts |-> NoStmts,
          stmts_after |-> NoStmts, fresh |-> fresh]
    ELSE With(encode_operand(args[i], fresh), LAMBDA enc :
         With(CallArgs(args, i + 1, enc.fresh), LAMBDA rest :
             IF ~enc.ok \/ ~rest.ok
             THEN [ok |-> FALSE, encoded_args |-> NoExprs, stmts |-> NoStmts,
                   stmts_after |-> NoStmts, fresh |-> 0]
             ELSE [ok |-> TRUE, encoded_args |-> <<enc.value>> \o rest.encoded_args,
                   stmts |-> enc.before \o rest.stmts,
                   stmts_after |-> enc.after \o rest.stmts_after,
                   fresh |-> rest.fresh]))

\* The statements of a panic call asserting true
PanicStmtsAssertTrue == <<comment("Rust panic"), assert(true_lit)>>

\* The statements pushed for a call of std::rt::begin_panic (lines 352-353)
PanicStmts == <<comment("Rust panic"), assert(false_lit)>>

\* The statements of a call with the effects after the arguments run first
CallStmtsAftersFirst(befores, call, afters) == afters \o <<call>> \o befores

\* The statements of any other call (lines 361, 367-373): the effects before
\* the arguments, the method call, the effects after the arguments
CallStmts(befores, call, afters) == befores \o <<call>> \o afters

\* encode_terminator, arm Call of a function item
EncodeCall(term, cfg_blocks, spec_cfg_block, fresh) ==
    LET successor ==
            IF Len(term.destination) > 0
            THEN SuccGoto(TargetOrSpec(cfg_blocks, term.destination[1].target,
                                       spec_cfg_block))
            ELSE SuccUnreachable
    IN  CASE term.func = "prusti_contracts::internal::__assertion" -> TermPanic
          [] term.func = "std::rt::begin_panic" ->
                IF Len(term.args) = 0 THEN TermPanic
                ELSE LoweredTerm(PanicStmts, successor, fresh)
          [] OTHER ->
                With2(CallArgs(term.args, 1, fresh),
                      [i \in 1..Len(term.destination) |->
                          encode_place(term.destination[i].place)],
                      LAMBDA args, dests :
                    IF ~args.ok \/ (\E i \in DOMAIN dests : ~dests[i].ok) THEN TermPanic
                    ELSE LET encoded_target == [i \in DOMAIN dests |-> dests[i].expr]
                         IN  LoweredTerm(
                                CallStmts(args.stmts,
                                          method_call(term.func, args.encoded_args,
                                                      encoded_target),
                                          args.stmts_after),
                                successor, args.fresh))

\* The guard of an Assert with the two cases of expected exchanged
AssertGuardInverted(expected, cond_var) ==
    IF expected THEN not(cond_var) ELSE PlaceExpr(cond_var)

\* The guard of an Assert (lines 404-408)
AssertGuard(expected, cond_var) ==
    IF expected THEN PlaceExpr(cond_var) ELSE not(cond_var)

\* encode_terminator, arm Assert
EncodeAssert(term, cfg_blocks, abort_cfg_block, fresh) ==
    With(eval_operand(term.operand, fresh + 1), LAMBDA cond :
    LET cond_var == FreshVar(fresh)
        viper_guard == AssertGuard(term.expected, cond_var)
    IN  IF ~cond.ok \/ term.target \notin DOMAIN cfg_blocks THEN TermPanic
        ELSE LoweredTerm(
                <<local_var_assign(cond_var, cond.value)>> \o cond.after,
                SuccGotoSwitch(<<[guard |-> viper_guard, target |-> cfg_blocks[term.target]]>>,
                               abort_cfg_block),
                fresh + 1))

\* The arm of Return ending the procedure in the block that returns
EncodeReturnInPlace(return_cfg_block, fresh) == LoweredTerm(NoStmts, SuccReturn, fresh)

\* encode_terminator, arm Return
EncodeReturn(return_cfg_block, fresh) ==
    LoweredTerm(NoStmts, SuccGoto(return_cfg_block), fresh)

\* encode_terminator
encode_terminator(term, cfg_blocks, spec_cfg_block, abort_cfg_block, return_cfg_block, fresh) ==
    CASE term.tk = "Return" -> EncodeReturn(return_cfg_block, fresh)
      [] term.tk \in {"Goto", "Drop", "FalseEdges", "FalseUnwind"} ->
            LoweredTerm(NoStmts,
                        SuccGoto(TargetOrSpec(cfg_blocks, term.target, spec_cfg_block)),
                        fresh)
      [] term.tk = "SwitchInt" -> EncodeSwitchInt(term, cfg_blocks, spec_cfg_block, fresh)
      [] term.tk = "Unreachable" -> LoweredTerm(NoStmts, SuccUnreachable, fresh)
      [] term.tk = "Abort" -> LoweredTerm(NoStmts, SuccGoto(abort_cfg_block), fresh)
      [] term.tk = "DropAndReplace" ->
            EncodeDropAndReplace(term, cfg_blocks, spec_cfg_block, fresh)
      [] term.tk = "Call" -> EncodeCall(term, cfg_blocks, spec_cfg_block, fresh)
      [] term.tk = "Assert" -> EncodeAssert(term, cfg_blocks, abort_cfg_block, fresh)
      [] OTHER -> TermPanic

(***************************************************************************)
(* The CfgMethod under construction (viper::CfgMethod)                     *)
(***************************************************************************)
\* A block label: start, bb<n> (format!("{:?}", bbi)), spec, abort, return
Label(lk, n) == [lk |-> lk, n |-> n]

\* A block as add_block leaves it: no successor set yet. set_count counts the
\* set_successor calls on the block.
CfgBlock(lbl, stmts) ==
    [label |-> lbl, stmts |-> stmts, successor |-> SuccUndefined, set_count |-> 0]

NoBlocks == SubSeq(<<CfgBlock(Label("", 0), NoStmts)>>, 1, 0)

\* new_cfg_method(name, formal args, formal returns, local vars)
new_cfg_method == [blocks |-> NoBlocks, formal_args |-> 0, formal_returns |-> 0]

\* cfg_method.add_block; the index of the new block is Len(blocks) after
add_block(m, lbl, stmts) == [m EXCEPT !.blocks = Append(@, CfgBlock(lbl, stmts))]

\* cfg_method.add_stmt, for a sequence of statements in order
add_stmts(m, index, stmts) == [m EXCEPT !.blocks[index].stmts = @ \o stmts]

\* cfg_method.set_successor
set_successor(m, index, successor) ==
    [m EXCEPT !.blocks[index].successor = successor,
              !.blocks[index].set_count = @ + 1]

(***************************************************************************)
(* encode (procedure_encoder.rs:421-575)                                   *)
(***************************************************************************)
\* The order with the statements lowered before the contract is emitted
PhaseOrderBodyFirst ==
    <<"contract", "formals", "start", "skeleton", "spec", "abort", "return",
      "body", "pre", "post", "terminators", "to_ast", "done">>

\* The order in which encode runs its parts
PhaseOrder ==
    <<"contract", "formals", "start", "skeleton", "spec", "abort", "return",
      "pre", "post", "body", "terminators", "to_ast", "done">>

\* The parts that walk the source CFG (walk_once_cfg), one step per block
WalkPhases == {"skeleton", "body", "terminators"}

PhaseIndex(phase) == CHOOSE k \in 1..Len(PhaseOrder) : PhaseOrder[k] = phase

\* The part that runs after phase in a procedure of n walked blocks: a walk
\* over no block does nothing
RECURSIVE PhaseAfter(_, _)
PhaseAfter(phase, n) ==
    LET next == PhaseOrder[PhaseIndex(phase) + 1]
    IN  IF next \in WalkPhases /\ n = 0 THEN PhaseAfter(next, n) ELSE next

\* The statements pushed to start_block_stmts for the arguments
\* _1 .. _arg_count (lines 431-446), from argument k on
RECURSIVE FormalArgStmts(_, _)
FormalArgStmts(k, arg_count) ==
    IF k > arg_count THEN NoStmts
    ELSE <<comment("Initialize formal arguments"),
           local_var_assign(encode_local(k), PlaceExpr(LocalVar("formal", k)))>>
         \o FormalArgStmts(k + 1, arg_count)

start_block_stmts(arg_count) ==
    <<comment("========== start ==========")>> \o FormalArgStmts(1, arg_count)

\* The inhales of the preconditions (lines 498-514), from argument k on
RECURSIVE PreconditionStmts(_, _)
PreconditionStmts(k, arg_count) ==
    IF k > arg_count THEN NoStmts
    ELSE <<inhale(encode_local(k), encode_type_predicate_use(get_rust_local_ty(k)))>>
         \o PreconditionStmts(k + 1, arg_count)

\* The postcondition with no exhale
PostconditionStmtsNone == NoStmts

\* The exhales of the postcondition (lines 519-535): local_decls.indices().take(1)
PostconditionStmts ==
    <<exhale(encode_local(0), encode_type_predicate_use(get_rust_local_ty(0)))>>

\* The loop over the statements of one block (lines 543-551), from statement
\* k on: the comment of each statement, then what encode_statement yields
RECURSIVE EncodeBlockStatements(_, _, _)
EncodeBlockStatements(statements, k, fr) ==
    IF k > Len(statements) THEN Lowered(NoStmts, fr)
    ELSE With(encode_statement(statements[k], fr), LAMBDA this :
            IF ~this.ok THEN LowerPanic
            ELSE With(EncodeBlockStatements(statements, k + 1, this.fresh), LAMBDA rest :
                    IF ~rest.ok THEN LowerPanic
                    ELSE Lowered(<<comment("statement")>> \o this.stmts \o rest.stmts,
                                 rest.fresh)))

\* The events log records
ContractEvent == "compute_procedure_contract"

NoLog == SubSeq(<<"">>, 1, 0)

\* n copies of an event
RECURSIVE Events(_, _)
Events(event, n) == IF n = 0 THEN NoLog ELSE <<event>> \o Events(event, n - 1)

\* The source procedures encode is run on: arg_count arguments, n blocks that
\* walk_once_cfg visits in the order bb0, bb1, ...; the statements and the
\* terminator of a block are recorded when encode reads them
NoStatements == SubSeq(<<OtherStatement("")>>, 1, 0)

NoTerminator == SubSeq(<<Return>>, 1, 0)

\* The statements a block of the procedures has
EncStatementLists ==
    { NoStatements,
      <<OtherStatement("StorageLive"), Assign(Local(0), Use(Move(Local(1))))>>,
      <<Assign(Local(0), UnaryOp("Neg", Copy(Local(1))))>>,
      <<Assign(Local(0), NullaryOp("SizeOf"))>>,
      <<OtherStatement("StorageDead"), OtherStatement("Nop")>> }

\* The terminators a block of the procedures has, for n walked blocks: bb<n>
\* is a block the walk does not visit
EncTerminators(n) ==
    { <<Return>>, <<TerminatorOf("Abort")>>, <<TerminatorOf("Resume")>>, NoTerminator,
      <<SwitchInt(Copy(Local(2)), "bool", <<0>>, <<0, n>>)>>,
      <<AssertTerminator(Move(Local(2)), TRUE, 0)>> }
    \cup { <<Goto(t)>> : t \in {0, n} }
    \cup { <<TerminatorOf(tk)>> : tk \in {"Yield", "GeneratorDrop"} }
    \cup { <<CallIndirect(NoOperands, NoDestination)>> }

NoMir == [arg_count |-> 0, n |-> 0,
          statements |-> SubSeq(<<NoStatements>>, 1, 0),
          terminators |-> SubSeq(<<NoTerminator>>, 1, 0)]

NoIds == [start |-> 0, spec |-> 0, abort |-> 0, return |-> 0]

EmptyBlockMap == [b \in {} |-> 0]

IdleEnc ==
    /\ mir = NoMir
    /\ pc = "idle"
    /\ at = 0
    /\ cfg_method = new_cfg_method
    /\ cfg_block_of = EmptyBlockMap
    /\ ids = NoIds
    /\ temps = 0
    /\ log = NoLog

\* The statement or terminator lowered on its own, and what came of it
NoLowIn == [what |-> "", stmt |-> OtherStatement(""), term |-> Return, registered |-> 0]

NoLowOut == [done |-> FALSE, ok |-> FALSE, stmts |-> NoStmts,
             successor |-> SuccUndefined, fresh |-> 0]

IdleLow == lowIn = NoLowIn /\ lowOut = NoLowOut

(***************************************************************************)
(* PrustiError (prusti_error.rs)                                           *)
(***************************************************************************)
\* MultiSpan values
Spans == {1, 2}

\* Option<&MultiSpan>: a sequence of at most one span
OptSpans == { SubSeq(<<1>>, 1, 0) } \cup { <<sp>> : sp \in Spans }

\* The messages the constructors are called with; check_message accepts them
\* (three characters or more, the first in lower case)
Messages == {"raw pointer", "fold failed"}

NoHelp == SubSeq(<<"">>, 1, 0)

NoNote == SubSeq(<<[text |-> "", span |-> 1]>>, 1, 0)

\* PrustiError::new
new(message, span) ==
    [is_error |-> TRUE, message |-> message, span |-> span, help |-> NoHelp,
     note |-> NoNote]

\* PrustiError::set_warning
set_warning(e) == [e EXCEPT !.is_error = FALSE]

\* PrustiError::verification
verification(message, span) == new("[Prusti: verification error] " \o message, span)

\* PrustiError::unsupported under the configuration cfg
unsupported(message, span, cfg) ==
    IF ~cfg.error_on_partially_supported /\ cfg.skip_unsupported_functions
    THEN set_warning(new("[Prusti: unsupported feature] " \o message, span))
    ELSE new("[Prusti: unsupported feature] " \o message, span)

\* PrustiError::incorrect
incorrect(message, span) == new("[Prusti: invalid specification] " \o message, span)

\* PrustiError::internal
internal(message, span) == new("[Prusti internal error] " \o message, span)

\* PrustiError::is_error
is_error(e) == e.is_error

\* PrustiError::set_help
set_help(e, message) == [e EXCEPT !.help = <<message>>]

\* PrustiError::set_failing_assertion
set_failing_assertion(e, opt_span) ==
    IF Len(opt_span) > 0
    THEN [e EXCEPT !.note = <<[text |-> "the failing assertion is here",
                               span |-> opt_span[1]]>>]
    ELSE e

\* PrustiError::push_primary_span
push_primary_span(e, opt_span) ==
    IF Len(opt_span) > 0
    THEN [e EXCEPT !.note = <<[text |-> "the error originates here", span |-> e.span]>>,
                   !.span = opt_span[1]]
    ELSE e

\* PrustiError::emit: the call made on the compiler's interface
emit(e) ==
    [level |-> IF e.is_error THEN "error" ELSE "warning",
     span |-> e.span, message |-> e.message, help |-> e.help, note |-> e.note]

NoError == SubSeq(<<new("", 1)>>, 1, 0)

NoReport == SubSeq(<<emit(new("", 1))>>, 1, 0)

IdleErr ==
    /\ config = [error_on_partially_supported |-> FALSE,
                 skip_unsupported_functions |-> FALSE]
    /\ error = NoError
    /\ reported = NoReport

(***************************************************************************)
(* Perm::init_perm_amount and Perm::update_perm_amount                     *)
(***************************************************************************)
\* What a call leaves: the perm it returns, or a panic
ReturnedPerm(perm) == [panicked |-> FALSE, perm |-> perm]
PanickedAt(perm) == [panicked |-> TRUE, perm |-> perm]

\* init_perm_amount without its assertion on new_perm
init_perm_amount_unasserted(perm, new_perm) ==
    IF perm.amount = "Unset" THEN ReturnedPerm([perm EXCEPT !.amount = new_perm])
    ELSE IF perm.amount = new_perm THEN ReturnedPerm(perm)
    ELSE PanickedAt(perm)

\* Perm::init_perm_amount: the assertion, then the five arms of the match
init_perm_amount(perm, new_perm) ==
    IF ~is_valid_for_specs(new_perm) THEN PanickedAt(perm)
    ELSE IF perm.amount = "Unset" THEN ReturnedPerm([perm EXCEPT !.amount = new_perm])
    ELSE IF perm.amount = new_perm THEN ReturnedPerm(perm)
    ELSE PanickedAt(perm)

\* Perm::update_perm_amount: the two assertions, then the two arms
update_perm_amount(perm, new_perm) ==
    IF ~is_valid_for_specs(get_perm_amount(perm)) THEN PanickedAt(perm)
    ELSE IF ~is_valid_for_specs(new_perm) THEN PanickedAt(perm)
    ELSE ReturnedPerm([perm EXCEPT !.amount = new_perm])

\* No call yet on the perm
NoCall(perm) ==
    [perm |-> perm, ops |-> 0, panicked |-> FALSE, last |-> "none",
     arg |-> "Unset", before |-> perm]

IdleAmt == owned = NoCall(acc(<<"x">>, "Unset"))

(***************************************************************************)
(* SupportStatus                                                           *)
(***************************************************************************)
ReasonStrings == {"uses iterators", "is a C-variadic function"}
InterestingStrings == {"returns a reference", "has a loop"}

\* struct Reason
Reason == [reason : ReasonStrings, position : Spans]

\* enum Restriction<T>
PartiallySupported(t) == [kind |-> "PartiallySupported", reason |-> t]
Unsupported(t) == [kind |-> "Unsupported", reason |-> t]

\* Restriction::is_partially_supported
Restriction_is_partially_supported(restriction) ==
    restriction.kind = "PartiallySupported"

\* Restriction::is_unsupported
Restriction_is_unsupported(restriction) == restriction.kind = "Unsupported"

\* SupportStatus::new
SupportStatus_new ==
    [restrictions |-> {}, precise_restrictions |-> {}, interestings |-> {}]

\* partially, with the restriction left out of precise_restrictions
partially_imprecise(self, reason) ==
    [self EXCEPT
        !.restrictions = @ \cup {PartiallySupported(reason.reason)}]

\* SupportStatus::partially
partially(self, reason) ==
    [self EXCEPT
        !.restrictions = @ \cup {PartiallySupported(reason.reason)},
        !.precise_restrictions = @ \cup {PartiallySupported(reason)}]

\* SupportStatus::unsupported
SupportStatus_unsupported(self, reason) ==
    [self EXCEPT
        !.restrictions = @ \cup {Unsupported(reason.reason)},
        !.precise_restrictions = @ \cup {Unsupported(reason)}]

\* SupportStatus::interesting
interesting(self, reason) ==
    [self EXCEPT !.interestings = @ \cup {reason}]

\* SupportStatus::is_supported
is_supported(self) == self.precise_restrictions = {}

\* SupportStatus::is_partially_supported
is_partially_supported(self) ==
    /\ self.precise_restrictions # {}
    /\ \A s \in self.precise_restrictions :
          Restriction_is_partially_supported(s)

\* SupportStatus::is_unsupported
is_unsupported(self) ==
    \E s \in self.precise_restrictions : Restriction_is_unsupported(s)

\* No call yet on the status
NoSupportCall ==
    [status |-> SupportStatus_new, ops |-> 0, last |-> "none",
     before |-> SupportStatus_new]

IdleSup == support_status = NoSupportCall

(***************************************************************************)
(* SpecDiff: perm_difference applied to bounded permission sets            *)
(***************************************************************************)
\* The sets of at most n perms.
RECURSIVE PermSetsUpTo(_)
PermSetsUpTo(n) ==
    IF n = 0 THEN {{}}
    ELSE LET smaller == PermSetsUpTo(n - 1)
         IN  smaller \cup { s \cup {p} : s \in smaller, p \in Perm }

NotCalled == [called |-> FALSE, panicked |-> FALSE, perms |-> {}]

IdleDiff == left = {} /\ right = {} /\ res = NotCalled

\* No call yet on any (kind, place)
NoLast == [key \in PermKind \X Places |-> "none"]

IdleSet ==
    /\ acc_perms = EmptyMap
    /\ pred_perms = EmptyMap
    /\ hist = [ops |-> 0, added |-> {}, pre |-> <<EmptyMap, EmptyMap>>,
               removed |-> {}, rtPre |-> <<EmptyMap, EmptyMap>>, last |-> NoLast]

\* The arguments: any two sets within the bound, and any set against itself.
InitDiff ==
    /\ left \in PermSetsUpTo(MaxPerms)
    /\ right \in {left} \cup PermSetsUpTo(MaxPerms - Cardinality(left))
    /\ res = NotCalled
    /\ IdleSet
    /\ IdleEnc
    /\ IdleLow
    /\ IdleErr
    /\ IdleAmt
    /\ IdleSup

\* One call perm_difference(left, right).
PermDifference ==
    /\ ~res.called
    /\ \E o \in perm_difference(left, right) :
          res' = [called |-> TRUE, panicked |-> o.panicked, perms |-> o.perms]
    /\ UNCHANGED <<left, right, setVars, encVars, lowVars, errVars, amtVars, supVars>>

NextDiff == PermDifference

SpecDiff == InitDiff /\ [][NextDiff]_vars

(***************************************************************************)
(* SpecSet: PermSet::add and PermSet::remove                               *)
(***************************************************************************)
\* PermSet::empty()
InitSet ==
    /\ IdleSet
    /\ IdleDiff
    /\ IdleEnc
    /\ IdleLow
    /\ IdleErr
    /\ IdleAmt
    /\ IdleSup

\* hist keeps, of the calls so far: their number; the perm of the last call
\* when it was an add (added) with the set before it (pre); and, when the last
\* call was a remove of the perm just added, that perm (removed) with the set
\* before the add (rtPre); and, for each (kind, place), whether the last call
\* on it was an add or a remove (last).
Add(perm) ==
    /\ hist.ops < MaxOps
    /\ acc_perms' = add(<<acc_perms, pred_perms>>, perm)[1]
    /\ pred_perms' = add(<<acc_perms, pred_perms>>, perm)[2]
    /\ hist' = [ops |-> hist.ops + 1, added |-> {perm},
                pre |-> <<acc_perms, pred_perms>>,
                removed |-> {}, rtPre |-> <<EmptyMap, EmptyMap>>,
                last |-> [hist.last EXCEPT ![<<perm.kind, perm.place>>] = "add"]]
    /\ UNCHANGED <<permVars, encVars, lowVars, errVars, amtVars, supVars>>

Remove(perm) ==
    /\ hist.ops < MaxOps
    /\ acc_perms' = remove(<<acc_perms, pred_perms>>, perm)[1]
    /\ pred_perms' = remove(<<acc_perms, pred_perms>>, perm)[2]
    /\ hist' = [ops |-> hist.ops + 1, added |-> {},
                pre |-> <<EmptyMap, EmptyMap>>,
                removed |-> IF hist.added = {perm} THEN {perm} ELSE {},
                rtPre |-> IF hist.added = {perm} THEN hist.pre
                          ELSE <<EmptyMap, EmptyMap>>,
                last |-> [hist.last EXCEPT ![<<perm.kind, perm.place>>] = "remove"]]
    /\ UNCHANGED <<permVars, encVars, lowVars, errVars, amtVars, supVars>>

NextSet == \E perm \in Perm : Add(perm) \/ Remove(perm)

SpecSet == InitSet /\ [][NextSet]_vars

(***************************************************************************)
(* SpecEnc: ProcedureEncoder::encode, one action per step of its code      *)
(***************************************************************************)
InitEnc ==
    /\ IdleDiff
    /\ IdleSet
    /\ IdleLow
    /\ IdleErr
    /\ IdleAmt
    /\ IdleSup
    /\ mir \in { [NoMir EXCEPT !.arg_count = a, !.n = n] :
                    a \in 0..MaxArgs, n \in 0..MaxBlocks }
    /\ pc = "contract"
    /\ at = 0
    /\ cfg_method = new_cfg_method
    /\ cfg_block_of = EmptyBlockMap
    /\ ids = NoIds
    /\ temps = 0
    /\ log = NoLog

\* The step of a walk ends at block `at`: on to the next block, or to the
\* next part of encode
WalkOn ==
    IF at + 1 < mir.n
    THEN pc' = pc /\ at' = at + 1
    ELSE pc' = PhaseAfter(pc, mir.n) /\ at' = 0

\* line 423
ComputeContract ==
    /\ pc = "contract"
    /\ log' = Append(log, ContractEvent)
    /\ pc' = PhaseAfter(pc, mir.n)
    /\ UNCHANGED <<mir, at, cfg_method, cfg_block_of, ids, temps>>
    /\ UNCHANGED <<permVars, setVars, lowVars, errVars, amtVars, supVars>>

\* lines 427-458: the formal arguments, the formal return, the local variables
DeclareFormals ==
    /\ pc = "formals"
    /\ cfg_method' = [cfg_method EXCEPT !.formal_args = mir.arg_count,
                                        !.formal_returns = 1]
    /\ log' = Append(log, "formals")
    /\ pc' = PhaseAfter(pc, mir.n)
    /\ UNCHANGED <<mir, at, cfg_block_of, ids, temps>>
    /\ UNCHANGED <<permVars, setVars, lowVars, errVars, amtVars, supVars>>

\* lines 460-463
AddStartBlock ==
    /\ pc = "start"
    /\ cfg_method' = add_block(cfg_method, Label("start", 0),
                               start_block_stmts(mir.arg_count))
    /\ ids' = [ids EXCEPT !.start = Len(cfg_method'.blocks)]
    /\ log' = Append(log, "add_block")
    /\ pc' = PhaseAfter(pc, mir.n)
    /\ UNCHANGED <<mir, at, cfg_block_of, temps>>
    /\ UNCHANGED <<permVars, setVars, lowVars, errVars, amtVars, supVars>>

\* lines 465-475, the closure run on block bb<at>
WalkSkeleton ==
    /\ pc = "skeleton"
    /\ LET bbi == at
           added == add_block(cfg_method, Label("bb", bbi),
                              <<comment("========== bb ==========")>>)
           cfg_block == Len(added.blocks)
       IN  /\ cfg_method' = IF at = 0
                            THEN set_successor(added, ids.start, SuccGoto(cfg_block))
                            ELSE added
           /\ cfg_block_of' = MapInsert(cfg_block_of, bbi, cfg_block)
    /\ log' = Append(log, "add_block")
    /\ WalkOn
    /\ UNCHANGED <<mir, ids, temps>>
    /\ UNCHANGED <<permVars, setVars, lowVars, errVars, amtVars, supVars>>

\* lines 477-481
AddSpecBlock ==
    /\ pc = "spec"
    /\ LET added == add_block(cfg_method, Label("spec", 0),
                              <<comment("========== spec =========="),
                                comment("This should never be reached.")>>)
       IN  /\ cfg_method' = set_successor(added, Len(added.blocks), SuccUnreachable)
           /\ ids' = [ids EXCEPT !.spec = Len(added.blocks)]
    /\ log' = Append(log, "add_block")
    /\ pc' = PhaseAfter(pc, mir.n)
    /\ UNCHANGED <<mir, at, cfg_block_of, temps>>
    /\ UNCHANGED <<permVars, setVars, lowVars, errVars, amtVars, supVars>>

\* lines 483-488
AddAbortBlock ==
    /\ pc = "abort"
    /\ LET added == add_block(cfg_method, Label("abort", 0),
                              <<comment("========== abort =========="),
                                comment("Target of any Rust panic."),
                                assert(true_lit)>>)
       IN  /\ cfg_method' = set_successor(added, Len(added.blocks), SuccUnreachable)
           /\ ids' = [ids EXCEPT !.abort = Len(added.blocks)]
    /\ log' = Append(log, "add_block")
    /\ pc' = PhaseAfter(pc, mir.n)
    /\ UNCHANGED <<mir, at, cfg_block_of, temps>>
    /\ UNCHANGED <<permVars, setVars, lowVars, errVars, amtVars, supVars>>

\* lines 490-494
AddReturnBlock ==
    /\ pc = "return"
    /\ LET added == add_block(cfg_method, Label("return", 0),
                              <<comment("========== return =========="),
                                comment("Target of any 'return' statement.")>>)
       IN  /\ cfg_method' = set_successor(added, Len(added.blocks), SuccReturn)
           /\ ids' = [ids EXCEPT !.return = Len(added.blocks)]
    /\ log' = Append(log, "add_block")
    /\ pc' = PhaseAfter(pc, mir.n)
    /\ UNCHANGED <<mir, at, cfg_block_of, temps>>
    /\ UNCHANGED <<permVars, setVars, lowVars, errVars, amtVars, supVars>>

\* lines 496-515
EncodePreconditions ==
    /\ pc = "pre"
    /\ cfg_method' = add_stmts(cfg_method, ids.start,
                               <<comment("Preconditions:")>>
                               \o PreconditionStmts(1, mir.arg_count)
                               \o <<label("precondition")>>)
    /\ log' = log \o Events("inhale", mir.arg_count)
    /\ pc' = PhaseAfter(pc, mir.n)
    /\ UNCHANGED <<mir, at, cfg_block_of, ids, temps>>
    /\ UNCHANGED <<permVars, setVars, lowVars, errVars, amtVars, supVars>>

\* lines 517-535
EncodePostcondition ==
    /\ pc = "post"
    /\ cfg_method' = add_stmts(cfg_method, ids.return,
                               <<comment("Postconditions:")>> \o PostconditionStmts)
    /\ log' = Append(log, "exhale")
    /\ pc' = PhaseAfter(pc, mir.n)
    /\ UNCHANGED <<mir, at, cfg_block_of, ids, temps>>
    /\ UNCHANGED <<permVars, setVars, lowVars, errVars, amtVars, supVars>>

\* The statements lowered for block bbi with a panic of encode_statement
\* passed over: the block keeps what it had and the walk goes on
StatementsLoweredSkipPanic(bbi, count, lowered) ==
    IF lowered.ok
    THEN /\ cfg_method' = add_stmts(cfg_method, cfg_block_of[bbi], lowered.stmts)
         /\ temps' = lowered.fresh
         /\ log' = log \o Events("encode_statement", count)
         /\ WalkOn
    ELSE /\ WalkOn
         /\ UNCHANGED <<cfg_method, temps, log>>

\* lines 545-550: the statements lowered for block bbi are added to its CFG
\* block; a panic of encode_statement ends encode
StatementsLowered(bbi, count, lowered) ==
    IF lowered.ok
    THEN /\ cfg_method' = add_stmts(cfg_method, cfg_block_of[bbi], lowered.stmts)
         /\ temps' = lowered.fresh
         /\ log' = log \o Events("encode_statement", count)
         /\ WalkOn
    ELSE /\ pc' = "panicked"
         /\ UNCHANGED <<at, cfg_method, temps, log>>

\* lines 537-552, the closure run on block bb<at>, whose statements are read
\* here
WalkStatements ==
    /\ pc = "body"
    /\ \E statements \in EncStatementLists :
          /\ mir' = [mir EXCEPT !.statements = Append(@, statements)]
          /\ StatementsLowered(at, Len(statements),
                               EncodeBlockStatements(statements, 1, temps))
    /\ UNCHANGED <<cfg_block_of, ids>>
    /\ UNCHANGED <<permVars, setVars, lowVars, errVars, amtVars, supVars>>

\* The statements lowered for the terminator of block bbi added to the abort
\* block instead of the block of bbi
TerminatorLoweredIntoAbort(bbi, lowered) ==
    IF lowered.ok
    THEN /\ cfg_method' =
               set_successor(add_stmts(cfg_method, ids.abort,
                                       <<comment("terminator")>> \o lowered.stmts),
                             cfg_block_of[bbi], lowered.successor)
         /\ temps' = lowered.fresh
         /\ log' = Append(log, "encode_terminator")
         /\ WalkOn
    ELSE /\ pc' = "panicked"
         /\ UNCHANGED <<at, cfg_method, temps, log>>

\* lines 558-570: the statements and the successor lowered for the terminator
\* of block bbi are attached to its CFG block; a panic of encode_terminator
\* ends encode
TerminatorLowered(bbi, lowered) ==
    IF lowered.ok
    THEN /\ cfg_method' =
               set_successor(add_stmts(cfg_method, cfg_block_of[bbi],
                                       <<comment("terminator")>> \o lowered.stmts),
                             cfg_block_of[bbi], lowered.successor)
         /\ temps' = lowered.fresh
         /\ log' = Append(log, "encode_terminator")
         /\ WalkOn
    ELSE /\ pc' = "panicked"
         /\ UNCHANGED <<at, cfg_method, temps, log>>

\* lines 554-572, the closure run on block bb<at>, whose terminator is read
\* here
WalkTerminators ==
    /\ pc = "terminators"
    /\ \E terminator \in EncTerminators(mir.n) :
          /\ mir' = [mir EXCEPT !.terminators = Append(@, terminator)]
          /\ IF Len(terminator) = 0
             THEN /\ WalkOn
                  /\ UNCHANGED <<cfg_method, temps, log>>
             ELSE TerminatorLowered(at,
                      encode_terminator(terminator[1], cfg_block_of, ids.spec, ids.abort,
                                        ids.return, temps))
    /\ UNCHANGED <<cfg_block_of, ids>>
    /\ UNCHANGED <<permVars, setVars, lowVars, errVars, amtVars, supVars>>

\* line 574
ToAst ==
    /\ pc = "to_ast"
    /\ log' = Append(log, "to_ast")
    /\ pc' = PhaseAfter(pc, mir.n)
    /\ UNCHANGED <<mir, at, cfg_method, cfg_block_of, ids, temps>>
    /\ UNCHANGED <<permVars, setVars, lowVars, errVars, amtVars, supVars>>

NextEnc ==
    \/ ComputeContract
    \/ DeclareFormals
    \/ AddStartBlock
    \/ WalkSkeleton
    \/ AddSpecBlock
    \/ AddAbortBlock
    \/ AddReturnBlock
    \/ EncodePreconditions
    \/ EncodePostcondition
    \/ WalkStatements
    \/ WalkTerminators
    \/ ToAst

SpecEnc == InitEnc /\ [][NextEnc]_vars

(***************************************************************************)
(* SpecLower: encode_statement / encode_terminator applied to one          *)
(* statement or terminator                                                 *)
(***************************************************************************)
\* The operands of the lowered statements and terminators; an operand drawn
\* from LeftOperands and one drawn from RightOperands name different places
\* (a place moved from is not used again)
LeftOperands ==
    { Copy(Local(1)), Move(Local(1)), Constant(1, "i32"),
      Move(Project(Local(3), "Field", 0)), Copy(Local(4)) }

RightOperands == { Copy(Local(2)), Move(Local(2)), Constant(0, "bool") }

LowDestinations ==
    { Local(0), Project(Local(3), "Field", 1), Project(Local(6), "Deref", 0) }

LowStatements ==
    { Assign(lhs, Use(o)) : lhs \in LowDestinations, o \in LeftOperands }
    \cup { Assign(Local(0), BinaryOp(op, l, r)) :
              op \in {"Add", "Gt", "Mul"}, l \in LeftOperands, r \in RightOperands }
    \cup { Assign(lhs, CheckedBinaryOp("Add", l, r)) :
              lhs \in {Local(3), Local(0)}, l \in LeftOperands, r \in RightOperands }
    \cup { Assign(Local(1), Discriminant(Local(5))),
           Assign(Project(Local(3), "Field", 0), Discriminant(Local(5))),
           Assign(Project(Local(8), "Field", 0),
                  Discriminant(Project(Local(8), "Field", 1))),
           Assign(Local(0), Discriminant(Project(Local(8), "Field", 1))) }
    \cup { Assign(Local(3), Aggregate("Tuple", "tup", 0, <<l, r>>)) :
              l \in LeftOperands, r \in RightOperands }
    \cup { Assign(Local(4), Aggregate("Adt", "S", 0, <<l, r>>)) :
              l \in LeftOperands, r \in RightOperands }
    \cup { Assign(Local(7), Aggregate("Adt", "T", 0, <<l, r>>)) :
              l \in LeftOperands, r \in RightOperands }
    \cup { Assign(Local(5), Aggregate("Adt", "E", 0, <<l>>)) : l \in LeftOperands }
    \cup { Assign(Local(5), Aggregate("Adt", "E", 1, <<l, r>>)) :
              l \in LeftOperands, r \in RightOperands }
    \cup { Assign(Local(10), Use(Copy(Local(9)))),
           Assign(Local(8), Use(Copy(Local(8)))),
           Assign(Project(Local(8), "Field", 1), Use(Copy(Local(5)))),
           Assign(Local(9), Use(Copy(Project(Project(Local(10), "Field", 1), "Deref", 0)))) }
    \cup { Assign(Local(6), Ref(Local(1))),
           Assign(Local(0), UnaryOp("Neg", Copy(Local(1)))),
           Assign(Local(0), NullaryOp("SizeOf")) }
    \cup { OtherStatement(k) : k \in {"StorageLive", "StorageDead", "EndRegion", "Nop"} }

\* The source blocks a terminator names
TargetBlocks == 0..2

LowCallArgs ==
    { NoOperands } \cup { <<l>> : l \in LeftOperands }
    \cup { <<l, r>> : l \in LeftOperands, r \in RightOperands }

LowSwitches ==
    { [ty |-> "bool", values |-> <<0>>, targets |-> <<0, 1>>],
      [ty |-> "bool", values |-> <<1>>, targets |-> <<1, 2>>],
      [ty |-> "i32", values |-> <<5>>, targets |-> <<1, 0>>],
      [ty |-> "i32", values |-> <<0, 1>>, targets |-> <<0, 1, 2>>],
      [ty |-> "i32", values |-> <<2, 0, 1>>, targets |-> <<2, 0, 1, 0>>],
      [ty |-> "i32", values |-> NoTargets, targets |-> <<1>>] }

\* The terminators lowered; a call of begin_panic carries its message
LowTerminators ==
    { Return, TerminatorOf("Unreachable"), TerminatorOf("Abort"), TerminatorOf("Resume"),
      CallIndirect(NoOperands, NoDestination) }
    \cup { Goto(t) : t \in TargetBlocks }
    \cup { Drop(Local(1), t) : t \in TargetBlocks }
    \cup { FalseEdges(t) : t \in TargetBlocks }
    \cup { FalseUnwind(t) : t \in TargetBlocks }
    \cup { SwitchInt(d, s.ty, s.values, s.targets) : d \in RightOperands, s \in LowSwitches }
    \cup { DropAndReplace(loc, o, t) :
              loc \in {Local(0), Project(Local(3), "Field", 1)}, o \in LeftOperands,
              t \in {0, 2} }
    \cup { Call(f, args, dest) :
              f \in {"foo", "prusti_contracts::internal::__assertion"},
              args \in LowCallArgs,
              dest \in {NoDestination, <<[place |-> Local(0), target |-> 1]>>} }
    \cup { Call("std::rt::begin_panic", args, dest) :
              args \in LowCallArgs \ {NoOperands},
              dest \in {NoDestination, <<[place |-> Local(0), target |-> 1]>>} }
    \cup { AssertTerminator(c, e, t) :
              c \in RightOperands, e \in BOOLEAN, t \in TargetBlocks }

\* The blocks of a procedure whose walk visited the source blocks
\* 0 .. registered - 1, numbered as encode numbers them: start, the walked
\* blocks, spec, abort, return
RegisteredBlocks(registered) == [bbi \in 0..(registered - 1) |-> bbi + 2]

SpecBlock(registered) == registered + 2

AbortBlock(registered) == registered + 3

ReturnBlock(registered) == registered + 4

InitLower ==
    /\ IdleDiff
    /\ IdleSet
    /\ IdleEnc
    /\ IdleErr
    /\ IdleAmt
    /\ IdleSup
    /\ lowIn \in { [NoLowIn EXCEPT !.what = "statement", !.stmt = s] : s \in LowStatements }
               \cup { [NoLowIn EXCEPT !.what = "terminator", !.term = t, !.registered = r] :
                         t \in LowTerminators, r \in 0..MaxRegistered }
    /\ lowOut = NoLowOut

\* encode_statement on the statement
StatementLowered(lowered) ==
    lowOut' = [done |-> TRUE, ok |-> lowered.ok, stmts |-> lowered.stmts,
               successor |-> SuccUndefined, fresh |-> lowered.fresh]

LowerStatement ==
    /\ lowIn.what = "statement"
    /\ ~lowOut.done
    /\ StatementLowered(encode_statement(lowIn.stmt, 0))
    /\ UNCHANGED <<lowIn, permVars, setVars, encVars, errVars, amtVars, supVars>>

\* encode_terminator on the terminator
TerminatorLoweredAlone(lowered) ==
    lowOut' = [done |-> TRUE, ok |-> lowered.ok, stmts |-> lowered.stmts,
               successor |-> lowered.successor, fresh |-> lowered.fresh]

LowerTerminator ==
    /\ lowIn.what = "terminator"
    /\ ~lowOut.done
    /\ TerminatorLoweredAlone(
          encode_terminator(lowIn.term, RegisteredBlocks(lowIn.registered),
                            SpecBlock(lowIn.registered), AbortBlock(lowIn.registered),
                            ReturnBlock(lowIn.registered), 0))
    /\ UNCHANGED <<lowIn, permVars, setVars, encVars, errVars, amtVars, supVars>>

NextLower == LowerStatement \/ LowerTerminator

SpecLower == InitLower /\ [][NextLower]_vars

(***************************************************************************)
(* SpecErr: one PrustiError is created, changed through its public         *)
(* methods and emitted                                                     *)
(***************************************************************************)
InitErr ==
    /\ IdleDiff
    /\ IdleSet
    /\ IdleEnc
    /\ IdleLow
    /\ config \in [error_on_partially_supported : BOOLEAN,
                   skip_unsupported_functions : BOOLEAN]
    /\ error = NoError
    /\ reported = NoReport
    /\ IdleAmt
    /\ IdleSup

\* The error exists and emit(self) has not consumed it
Held == Len(error) = 1 /\ Len(reported) = 0

CreateVerification ==
    /\ error = NoError
    /\ \E message \in Messages, span \in Spans : error' = <<verification(message, span)>>
    /\ UNCHANGED <<config, reported, permVars, setVars, encVars, lowVars,
                 amtVars, supVars>>

CreateUnsupported ==
    /\ error = NoError
    /\ \E message \in Messages, span \in Spans :
          error' = <<unsupported(message, span, config)>>
    /\ UNCHANGED <<config, reported, permVars, setVars, encVars, lowVars,
                 amtVars, supVars>>

CreateIncorrect ==
    /\ error = NoError
    /\ \E message \in Messages, span \in Spans : error' = <<incorrect(message, span)>>
    /\ UNCHANGED <<config, reported, permVars, setVars, encVars, lowVars,
                 amtVars, supVars>>

CreateInternal ==
    /\ error = NoError
    /\ \E message \in Messages, span \in Spans : error' = <<internal(message, span)>>
    /\ UNCHANGED <<config, reported, permVars, setVars, encVars, lowVars,
                 amtVars, supVars>>

SetWarning ==
    /\ Held
    /\ error' = <<set_warning(error[1])>>
    /\ UNCHANGED <<config, reported, permVars, setVars, encVars, lowVars,
                 amtVars, supVars>>

SetHelp ==
    /\ Held
    /\ \E message \in {"try this"} : error' = <<set_help(error[1], message)>>
    /\ UNCHANGED <<config, reported, permVars, setVars, encVars, lowVars,
                 amtVars, supVars>>

SetFailingAssertion ==
    /\ Held
    /\ \E opt_span \in OptSpans : error' = <<set_failing_assertion(error[1], opt_span)>>
    /\ UNCHANGED <<config, reported, permVars, setVars, encVars, lowVars,
                 amtVars, supVars>>

PushPrimarySpan ==
    /\ Held
    /\ \E opt_span \in OptSpans : error' = <<push_primary_span(error[1], opt_span)>>
    /\ UNCHANGED <<config, reported, permVars, setVars, encVars, lowVars,
                 amtVars, supVars>>

Emit ==
    /\ Held
    /\ reported' = <<emit(error[1])>>
    /\ UNCHANGED <<config, error, permVars, setVars, encVars, lowVars,
                 amtVars, supVars>>

NextErr ==
    \/ CreateVerification
    \/ CreateUnsupported
    \/ CreateIncorrect
    \/ CreateInternal
    \/ SetWarning
    \/ SetHelp
    \/ SetFailingAssertion
    \/ PushPrimarySpan
    \/ Emit

SpecErr == InitErr /\ [][NextErr]_vars

(***************************************************************************)
(* SpecAmount: init_perm_amount and update_perm_amount on one perm         *)
(***************************************************************************)
\* Any perm, an Unset one included, as the constructors Perm::acc and
\* Perm::pred make them.
InitAmount ==
    /\ owned \in { NoCall(perm) : perm \in Perm }
    /\ IdleDiff
    /\ IdleSet
    /\ IdleEnc
    /\ IdleLow
    /\ IdleErr
    /\ IdleSup

\* owned keeps the perm; the number of calls; whether the last one panicked;
\* which it was (last) with its argument (arg) and the perm it took (before).
\* A panic ends the run.
InitPermAmount(new_perm) ==
    /\ owned.ops < MaxOps
    /\ ~owned.panicked
    /\ owned' = With(init_perm_amount(owned.perm, new_perm), LAMBDA o :
                  [perm |-> o.perm, ops |-> owned.ops + 1,
                   panicked |-> o.panicked, last |-> "init",
                   arg |-> new_perm, before |-> owned.perm])
    /\ UNCHANGED <<permVars, setVars, encVars, lowVars, errVars, supVars>>

UpdatePermAmount(new_perm) ==
    /\ owned.ops < MaxOps
    /\ ~owned.panicked
    /\ owned' = With(update_perm_amount(owned.perm, new_perm), LAMBDA o :
                  [perm |-> o.perm, ops |-> owned.ops + 1,
                   panicked |-> o.panicked, last |-> "update",
                   arg |-> new_perm, before |-> owned.perm])
    /\ UNCHANGED <<permVars, setVars, encVars, lowVars, errVars, supVars>>

NextAmount ==
    \E new_perm \in PermAmount :
        InitPermAmount(new_perm) \/ UpdatePermAmount(new_perm)

SpecAmount == InitAmount /\ [][NextAmount]_vars

(***************************************************************************)
(* SpecSupport: partially, unsupported and interesting on one status       *)
(***************************************************************************)
\* SupportStatus::new()
InitSupport ==
    /\ IdleSup
    /\ IdleDiff
    /\ IdleSet
    /\ IdleEnc
    /\ IdleLow
    /\ IdleErr
    /\ IdleAmt

\* support_status keeps the status; the number of calls; which the last one
\* was (last) and the status it took (before).
Partially(reason) ==
    /\ support_status.ops < MaxOps
    /\ support_status' =
          [status |-> partially(support_status.status, reason),
           ops |-> support_status.ops + 1, last |-> "partially",
           before |-> support_status.status]
    /\ UNCHANGED <<permVars, setVars, encVars, lowVars, errVars, amtVars>>

UnsupportedCall(reason) ==
    /\ support_status.ops < MaxOps
    /\ support_status' =
          [status |-> SupportStatus_unsupported(support_status.status, reason),
           ops |-> support_status.ops + 1, last |-> "unsupported",
           before |-> support_status.status]
    /\ UNCHANGED <<permVars, setVars, encVars, lowVars, errVars, amtVars>>

Interesting(reason) ==
    /\ support_status.ops < MaxOps
    /\ support_status' =
          [status |-> interesting(support_status.status, reason),
           ops |-> support_status.ops + 1, last |-> "interesting",
           before |-> support_status.status]
    /\ UNCHANGED <<permVars, setVars, encVars, lowVars, errVars, amtVars>>

NextSupport ==
    \/ \E reason \in Reason : Partially(reason) \/ UnsupportedCall(reason)
    \/ \E reason \in InterestingStrings : Interesting(reason)

SpecSupport == InitSupport /\ [][NextSupport]_vars

(***************************************************************************)
(* Claims about perm_difference, checked under SpecDiff                    *)
(***************************************************************************)
\* At most one amount per kind and place, as a PermSet holds them.
OneAmountPerPlace(s) ==
    \A p \in s, q \in s : p.kind = q.kind /\ p.place = q.place => p = q

NoUnset(s) == \A p \in s : p.amount # "Unset"

\* C1 as claimed: for any S built from Acc/Pred perms over the places and
\* amounts, perm_difference(S, S) is empty and perm_difference(S, {}) is S.
C1_SelfAndEmpty_AnySet ==
    res.called =>
        /\ right = left => ~res.panicked /\ res.perms = {}
        /\ right = {} => ~res.panicked /\ res.perms = left

\* C1 amended: for S holding at most one amount per kind and place,
\* perm_difference(S, {}) is S, and when S moreover holds no Unset amount,
\* perm_difference(S, S) is empty.
C1_SelfAndEmpty ==
    res.called /\ OneAmountPerPlace(left) =>
        /\ right = left /\ NoUnset(left) => ~res.panicked /\ res.perms = {}
        /\ right = {} => ~res.panicked /\ res.perms = left

\* C1 witness: a set of two perms was subtracted from itself and nothing is left.
C1_Witness ==
    /\ res.called /\ right = left /\ Cardinality(left) >= 2
    /\ OneAmountPerPlace(left) /\ NoUnset(left)
    /\ ~res.panicked /\ res.perms = {}

\* q is p.f for some field f
IsFieldOf(q, p) == Len(q) = Len(p) + 1 /\ has_prefix(q, p)

\* C2: perm_difference({Acc(p,W)}, {Acc(p.f,W)}) returns {Acc(p,W)} unchanged,
\* and perm_difference({Acc(p,W)}, {Acc(p,W)}) returns the empty set.
C2_FieldKeepsParent ==
    res.called =>
        \A p \in Places, q \in Places :
            /\ (left = {acc(p, "Write")} /\ right = {acc(q, "Write")} /\ IsFieldOf(q, p))
                  => ~res.panicked /\ res.perms = {acc(p, "Write")}
            /\ (left = {acc(p, "Write")} /\ right = {acc(p, "Write")})
                  => ~res.panicked /\ res.perms = {}

\* C2 witness: Acc(x.f, W) was subtracted from Acc(x, W), which stayed.
C2_Witness ==
    /\ res.called
    /\ left = {acc(<<"x">>, "Write")}
    /\ right = {acc(<<"x", "f">>, "Write")}
    /\ res.perms = {acc(<<"x">>, "Write")}

SubtractableAmounts ==
    {<<"Read", "Read">>, <<"Read", "Write">>, <<"Write", "Write">>}

Subtractable(l, r) ==
    \A p \in l, q \in r :
        p.kind = q.kind /\ p.place = q.place
            => <<p.amount, q.amount>> \in SubtractableAmounts

C4_PrefixAware ==
    (res.called /\ ~res.panicked) =>
        \A q \in right, p \in res.perms :
            ~(p.kind = q.kind /\ has_proper_prefix(p.place, q.place))

\* The entries of left right also holds, under the same kind and for the same
\* place, with a pair of amounts the match accepts
SubtractedEntries ==
    { p \in left : \E q \in right :
        /\ p.kind = q.kind /\ p.place = q.place
        /\ <<p.amount, q.amount>> \in SubtractableAmounts }

\* The entries of left whose (kind, place) right does not hold
UntouchedEntries ==
    { p \in left : \A q \in right : p.kind # q.kind \/ p.place # q.place }

KindPart(s, kind) == { p \in s : p.kind = kind }

\* The perms of kind in the result are what they can be when right holds no
\* perm of the other kind
SameWithoutOtherKind(kind) ==
    \E o \in perm_difference(left, KindPart(right, kind)) :
        ~o.panicked /\ KindPart(o.perms, kind) = KindPart(res.perms, kind)

\* C29: perm_difference never invents permission: every permission in the
\* result is an element of left, with its kind, place and amount; a permission
\* of left is missing from the result only when right holds a permission of
\* the same kind on the same place or when the result keeps another amount of
\* left for that kind and place, so that an Acc permission in right never
\* removes a Pred permission from left, nor the reverse.
C29_NeverInvents ==
    (res.called /\ ~res.panicked) =>
        /\ res.perms \subseteq left
        /\ \A p \in left \ res.perms :
              \/ \E q \in right : q.kind = p.kind /\ q.place = p.place
              \/ \E q \in res.perms : q.kind = p.kind /\ q.place = p.place
        /\ \A kind \in PermKind : SameWithoutOtherKind(kind)

\* C29 witness: right held an Acc permission on the place of a Pred permission
\* of left, which is in the result, while an Acc permission of left was removed
C29_Witness ==
    /\ res.called /\ ~res.panicked
    /\ \E p \in left, q \in right :
          /\ is_pred(p) /\ is_acc(q) /\ p.place = q.place
          /\ p \in res.perms
    /\ \E p \in left : is_acc(p) /\ p \notin res.perms

(***************************************************************************)
(* Claims about PermSet, checked under SpecSet                             *)
(***************************************************************************)
\* C5 as claimed: add of a perm followed by remove of the same perm leaves the
\* set as it was before the add, also when it held an entry for that place.
C5_AddRemoveRestores ==
    hist.removed # {} => <<acc_perms, pred_perms>> = hist.rtPre

\* m without its entry for place, written out
WithoutEntry(m, place) == [p \in { q \in DOMAIN m : q # place } |-> m[p]]

\* C5 amended: add of a perm followed by remove of the same perm leaves the
\* set as it was before the add except that an entry the set held for that
\* place in that namespace is gone; the set is restored exactly when it held
\* no such entry.
C5_AddRemoveDropsEntry ==
    \A perm \in hist.removed :
        /\ perm.kind = "Acc" =>
              /\ acc_perms = WithoutEntry(hist.rtPre[1], perm.place)
              /\ pred_perms = hist.rtPre[2]
        /\ perm.kind = "Pred" =>
              /\ pred_perms = WithoutEntry(hist.rtPre[2], perm.place)
              /\ acc_perms = hist.rtPre[1]
        /\ (<<acc_perms, pred_perms>> = hist.rtPre)
              <=> ~contains(hist.rtPre, perm)

\* C5 witness: a perm was added to a non-empty set without an entry for its
\* place, then removed, and the set is as before.
C5_Witness ==
    /\ hist.removed # {}
    /\ \A perm \in hist.removed : ~contains(hist.rtPre, perm)
    /\ perms(hist.rtPre) # {}
    /\ <<acc_perms, pred_perms>> = hist.rtPre

\* The set as it is now
CurrentSet == <<acc_perms, pred_perms>>

\* C20: after any sequence of add and remove, contains(perm) is true exactly
\* when the last add or remove on the perm's (kind, place) was an add; the
\* answer is the same for every amount the queried perm carries, whatever the
\* amounts of the perms added and removed.
C20_ContainsIffLastWasAdd ==
    \A perm \in Perm :
        contains(CurrentSet, perm) <=> hist.last[<<perm.kind, perm.place>>] = "add"

\* A place is held with an amount other than the one asked for and is found;
\* another (kind, place) was added and then removed and is not found
C20_Witness ==
    /\ \E place \in Places :
          /\ hist.last[<<"Acc", place>>] = "add"
          /\ acc_perms[place] = "Read"
          /\ contains(CurrentSet, acc(place, "Write"))
    /\ \E key \in PermKind \X Places :
          /\ hist.last[key] = "remove"
          /\ ~contains(CurrentSet, [kind |-> key[1], place |-> key[2], amount |-> "Read"])
    /\ hist.ops = 3

\* What perms() returns for the set as it is now: one Perm per entry of each
\* map, of the map's kind, with the entry's place and stored amount, and no
\* two for the same (kind, place)
PermsOnePerEntry ==
    /\ Cardinality(perms(CurrentSet))
          = Cardinality(DOMAIN acc_perms) + Cardinality(DOMAIN pred_perms)
    /\ \A q \in perms(CurrentSet) :
          /\ is_acc(q) => q.place \in DOMAIN acc_perms /\ q.amount = acc_perms[q.place]
          /\ is_pred(q) => q.place \in DOMAIN pred_perms /\ q.amount = pred_perms[q.place]
    /\ \A q1, q2 \in perms(CurrentSet) :
          (q1.kind = q2.kind /\ q1.place = q2.place) => q1 = q2

\* An add or remove of a perm leaves the map of the other kind as it was
OtherNamespaceUnchanged ==
    \A perm \in Perm :
        (Add(perm) \/ Remove(perm)) =>
            /\ is_acc(perm) => pred_perms' = pred_perms
            /\ is_pred(perm) => acc_perms' = acc_perms

\* C21: in every reachable PermSet state each namespace holds at most one
\* entry per place and perms() returns exactly one Perm per entry with its
\* kind and stored amount; an add or remove of an Acc permission leaves every
\* predicate entry unchanged, and an add or remove of a Pred permission leaves
\* every access entry unchanged.
C21_NamespacesIndependent ==
    [](PermsOnePerEntry) /\ [][OtherNamespaceUnchanged]_vars

\* An Acc permission was added for a place the predicate namespace holds with
\* another amount, and both entries are returned by perms()
C21_Witness ==
    /\ \E perm \in hist.added :
          /\ is_acc(perm)
          /\ perm.place \in DOMAIN hist.pre[2]
          /\ perm.place \in DOMAIN pred_perms
          /\ pred_perms[perm.place] # perm.amount
          /\ perm \in perms(CurrentSet)
          /\ pred(perm.place, pred_perms[perm.place]) \in perms(CurrentSet)
    /\ Cardinality(perms(CurrentSet)) >= 2

(***************************************************************************)
(* Claims about lowering one statement or terminator, checked under        *)
(* SpecLower                                                               *)
(***************************************************************************)
\* The terminator lowered is a SwitchInt on a boolean with two targets
TwoArmedBoolSwitch ==
    /\ lowIn.what = "terminator"
    /\ lowIn.term.tk = "SwitchInt"
    /\ TyKind(lowIn.term.switch_ty) = "TyBool"
    /\ Len(lowIn.term.targets) = 2

\* The temporary the discriminant of the lowered SwitchInt is assigned to
DiscrTemp == FreshVar(0)

\* The CFG block encode_terminator was given for source block target
LowTarget(target) ==
    TargetOrSpec(RegisteredBlocks(lowIn.registered), target, SpecBlock(lowIn.registered))

\* C6 as stated: lowering a two-armed SwitchInt on a boolean yields a
\* successor with exactly two guarded (guard, target) pairs whose guards are
\* the discriminant temporary and its negation.
C6_TwoGuardedPairs ==
    (TwoArmedBoolSwitch /\ lowOut.done /\ lowOut.ok) =>
        /\ lowOut.successor.k = "GotoSwitch"
        /\ Len(lowOut.successor.guards) = 2
        /\ { lowOut.successor.guards[g].guard : g \in 1..2 }
              = { not(DiscrTemp), PlaceExpr(DiscrTemp) }

\* C6, amended: lowering a two-armed SwitchInt on a boolean yields a GotoSwitch
\* with exactly one guarded pair, for the one listed value: its guard is the
\* negation of the discriminant temporary when the value is 0 and the temporary
\* itself otherwise, its target is the block of the first target; the second
\* target is the separate default of the GotoSwitch.
C6_OneGuardAndDefault ==
    (TwoArmedBoolSwitch /\ lowOut.done /\ lowOut.ok) =>
        /\ lowOut.successor.k = "GotoSwitch"
        /\ Len(lowOut.successor.guards) = 1
        /\ lowOut.successor.guards[1].guard =
              (IF lowIn.term.values[1] = 0 THEN not(DiscrTemp) ELSE PlaceExpr(DiscrTemp))
        /\ lowOut.successor.guards[1].target = LowTarget(lowIn.term.targets[1])
        /\ lowOut.successor.target = LowTarget(lowIn.term.targets[2])

\* A two-armed boolean SwitchInt on the value 0 was lowered, with both of its
\* targets registered
C6_Witness ==
    /\ TwoArmedBoolSwitch
    /\ lowOut.done
    /\ lowOut.ok
    /\ lowIn.term.values = <<0>>
    /\ lowOut.successor.guards[1].guard = not(DiscrTemp)
    /\ lowOut.successor.guards[1].target # lowOut.successor.target
    /\ lowOut.successor.target # SpecBlock(lowIn.registered)

\* The operands the lowered statement or terminator consumes (a call of
\* begin_panic only prints its first argument)
ConsumedOperands ==
    IF lowIn.what = "statement"
    THEN IF lowIn.stmt.kind = "Assign"
            /\ lowIn.stmt.rv.rk \in {"Use", "BinaryOp", "CheckedBinaryOp", "Aggregate"}
         THEN { lowIn.stmt.rv.operands[k] : k \in 1..Len(lowIn.stmt.rv.operands) }
         ELSE {}
    ELSE CASE lowIn.term.tk \in {"SwitchInt", "Assert", "DropAndReplace"} ->
                { lowIn.term.operand }
           [] lowIn.term.tk = "Call" /\ lowIn.term.func # "std::rt::begin_panic" ->
                { lowIn.term.args[k] : k \in 1..Len(lowIn.term.args) }
           [] OTHER -> {}

\* The places an expression reads
PlacesOfExpr(e) == { at2.pl : at2 \in { x \in {e.a, e.b} : x.t = "place" } }

\* The places a statement reads: in the expression it assigns, asserts or
\* branches on, and in the arguments of a call
PlacesRead(stmt) ==
    PlacesOfExpr(stmt.rhs)
    \cup UNION { PlacesOfExpr(stmt.args[k]) : k \in 1..Len(stmt.args) }

\* place q is place p or a field reached from p
IsUnder(q, p) ==
    /\ q.var = p.var
    /\ Len(p.path) <= Len(q.path)
    /\ SubSeq(q.path, 1, Len(p.path)) = p.path

\* The statement nulling the place of a Move operand
NullingOf(operand) ==
    assign(encode_place(operand.place).expr, null_lit,
           is_place_encoded_as_local_var(operand.place))

\* For every Move operand consumed, the statement nulling its place is emitted,
\* some statement reads the place, and every statement reading it comes before
\* the nulling statement
MovesNulledAfterRead ==
    \A operand \in { o \in ConsumedOperands : o.ok = "Move" } :
        LET p == encode_place(operand.place).expr
            reads == { r \in 1..Len(lowOut.stmts) :
                          \E q \in PlacesRead(lowOut.stmts[r]) : IsUnder(q, p) }
            nulls == { n \in 1..Len(lowOut.stmts) : lowOut.stmts[n] = NullingOf(operand) }
        IN  /\ reads # {}
            /\ nulls # {}
            /\ \A r \in reads, n \in nulls : r < n

\* Every statement preparing a fresh variable (allocating it, writing its
\* fields) comes before every statement that reads the variable
FreshPreparedBeforeRead ==
    \A r \in 1..Len(lowOut.stmts), w \in 1..Len(lowOut.stmts) :
        (/\ lowOut.stmts[w].lhs.var.vk = "tmp"
         /\ \E q \in PlacesRead(lowOut.stmts[r]) : q.var = lowOut.stmts[w].lhs.var)
        => w < r

\* C10: in every lowering that consumes an operand, the operand's "before"
\* statements precede and its "after" statements follow the statement reading
\* the operand's value: the statement nulling a moved-from place comes strictly
\* after the statement that reads it.
C10_EffectsAroundRead ==
    (lowOut.done /\ lowOut.ok) => (MovesNulledAfterRead /\ FreshPreparedBeforeRead)

\* A statement or terminator consuming a Move operand and an operand prepared
\* in a fresh variable was lowered
C10_Witness ==
    /\ lowOut.done
    /\ lowOut.ok
    /\ \E o \in ConsumedOperands : o.ok = "Move"
    /\ \E o \in ConsumedOperands : o.ok = "Copy"
    /\ \E w \in 1..Len(lowOut.stmts) : lowOut.stmts[w].lhs.var.vk = "tmp"
    /\ \E n \in 2..Len(lowOut.stmts) :
          \E o \in ConsumedOperands : o.ok = "Move" /\ lowOut.stmts[n] = NullingOf(o)


\* The source blocks the lowered terminator names as targets
NamedTargets ==
    CASE lowIn.term.tk \in {"Goto", "Drop", "FalseEdges", "FalseUnwind",
                            "DropAndReplace", "Assert"} -> { lowIn.term.target }
      [] lowIn.term.tk = "SwitchInt" ->
            { lowIn.term.targets[k] : k \in 1..Len(lowIn.term.targets) }
      [] lowIn.term.tk = "Call" ->
            { lowIn.term.destination[k].target : k \in 1..Len(lowIn.term.destination) }
      [] OTHER -> {}

\* The lowered terminator names a target block that is not registered, and is
\* not a call of the assertion helper, which fails whatever its target
NamesUnregisteredTarget ==
    /\ lowIn.what = "terminator"
    /\ \E t \in NamedTargets : t \notin DOMAIN RegisteredBlocks(lowIn.registered)
    /\ lowIn.term.tk = "Call" =>
          lowIn.term.func # "prusti_contracts::internal::__assertion"

\* The successor of the lowered terminator names, for every source target, the
\* block registered for it, and the spec block for a target not registered
SuccessorFallsBackToSpec ==
    CASE lowIn.term.tk \in {"Goto", "Drop", "FalseEdges", "FalseUnwind", "DropAndReplace"} ->
            lowOut.successor = SuccGoto(LowTarget(lowIn.term.target))
      [] lowIn.term.tk = "Call" ->
            lowOut.successor = SuccGoto(LowTarget(lowIn.term.destination[1].target))
      [] lowIn.term.tk = "SwitchInt" ->
            /\ lowOut.successor.k = "GotoSwitch"
            /\ Len(lowOut.successor.guards) = Len(lowIn.term.values)
            /\ \A k \in 1..Len(lowIn.term.values) :
                  lowOut.successor.guards[k].target = LowTarget(lowIn.term.targets[k])
            /\ lowOut.successor.target =
                  LowTarget(lowIn.term.targets[Len(lowIn.term.values) + 1])
      [] lowIn.term.tk = "Assert" ->
            /\ lowOut.successor.k = "GotoSwitch"
            /\ Len(lowOut.successor.guards) = 1
            /\ lowOut.successor.guards[1].target = LowTarget(lowIn.term.target)
      [] OTHER -> FALSE

\* C11 as stated: for every terminator kind that names a target block (Goto,
\* SwitchInt, Drop, FalseEdges, FalseUnwind, DropAndReplace, Call with a return
\* edge, Assert), lowering a terminator whose target is not registered does
\* not fail and puts the spec block in the place of that target.
C11_UnregisteredToSpec ==
    (NamesUnregisteredTarget /\ lowOut.done) =>
        (lowOut.ok /\ SuccessorFallsBackToSpec)

\* The same for every kind but Assert
UnregisteredToSpecUnlessAssert ==
    (NamesUnregisteredTarget /\ lowOut.done /\ lowIn.term.tk # "Assert") =>
        (lowOut.ok /\ SuccessorFallsBackToSpec)

\* An aggregate construction was lowered
AggregateLowered ==
    /\ lowIn.what = "statement"
    /\ lowIn.stmt.kind = "Assign"
    /\ lowIn.stmt.rv.rk = "Aggregate"
    /\ lowOut.done
    /\ lowOut.ok

\* The cell an aggregate construction builds: the first fresh variable
AggregateCell == FreshVar(0)

\* A statement writing a field of the cell
WritesCellField(stmt) ==
    /\ stmt.s = "field_assign"
    /\ stmt.lhs.var = AggregateCell.var
    /\ Len(stmt.lhs.path) = 1

\* The writes of the operands into the fields of the cell, in order
AggregateWrites ==
    SelectSeq(lowOut.stmts,
              LAMBDA stmt : WritesCellField(stmt)
                            /\ stmt.lhs.path[1] # encode_discriminant_field)

\* The place a later read of field k of variant v of the constructed value
\* goes through: a field projection, below a downcast for a multi-variant type
FieldProjection(v, k) ==
    IF lowIn.stmt.rv.agg.ak = "Adt" /\ Len(AdtVariants(lowIn.stmt.rv.agg.ty)) > 1
    THEN Project(Project(lowIn.stmt.lhs, "Downcast", v), "Field", k)
    ELSE Project(lowIn.stmt.lhs, "Field", k)

\* The field name encode_projection gives that place
ProjectedFieldName(v, k) ==
    LET e == encode_place(FieldProjection(v, k)).expr
    IN  e.path[Len(e.path)]

\* The field name the claim gives field k of variant v
ClaimedFieldName(v, k) ==
    CASE lowIn.stmt.rv.agg.ak = "Tuple" -> FieldName("tuple", k, "")
      [] Len(AdtVariants(lowIn.stmt.rv.agg.ty)) = 1 ->
            FieldName("struct", 0, AdtVariants(lowIn.stmt.rv.agg.ty)[1][k + 1].name)
      [] OTHER ->
            FieldName("enum", v, AdtVariants(lowIn.stmt.rv.agg.ty)[v + 1][k + 1].name)

\* The fields of the variants of the constructed type other than variant v
OtherVariantFields(v) ==
    IF lowIn.stmt.rv.agg.ak = "Adt"
    THEN { vk \in (0..(Len(AdtVariants(lowIn.stmt.rv.agg.ty)) - 1)) \X (0..1) :
              /\ vk[1] # v
              /\ vk[2] < Len(AdtVariants(lowIn.stmt.rv.agg.ty)[vk[1] + 1]) }
    ELSE {}

\* C12: the field name aggregate construction writes for field k of the
\* constructed variant equals the field name a later field projection on the
\* same type, variant and field produces: tuple_<k> for a tuple, struct_<name>
\* for a single-variant ADT, enum_<variant>_<name> for a multi-variant ADT; it
\* is the name of no field of another variant of the type.
C12_SameFieldName ==
    AggregateLowered =>
        LET v == lowIn.stmt.rv.agg.variant
        IN  /\ Len(AggregateWrites) = Len(lowIn.stmt.rv.operands)
            /\ \A k \in 1..Len(AggregateWrites) :
                  /\ AggregateWrites[k].lhs.path[1] = ProjectedFieldName(v, k - 1)
                  /\ AggregateWrites[k].lhs.path[1] = ClaimedFieldName(v, k - 1)
                  /\ \A vk \in OtherVariantFields(v) :
                        AggregateWrites[k].lhs.path[1] # ProjectedFieldName(vk[1], vk[2])

\* The two fields of variant 1 of the enum were written, and variant 0 has a
\* field of the same source name as one of them
C12_Witness ==
    /\ AggregateLowered
    /\ lowIn.stmt.rv.agg.ty = "E"
    /\ lowIn.stmt.rv.agg.variant = 1
    /\ Len(AggregateWrites) = 2
    /\ \E vk \in OtherVariantFields(1) :
          AdtVariants("E")[vk[1] + 1][vk[2] + 1].name = AggregateWrites[1].lhs.path[1].nm

\* An aggregate construction of the two-field tuple struct T was lowered
TupleStructLowered ==
    /\ AggregateLowered
    /\ lowIn.stmt.rv.agg.ty = "T"

\* The positions of the statements of lowOut of kind s
StmtsOfKind(s) == { k \in 1..Len(lowOut.stmts) : lowOut.stmts[k].s = s }

\* The positions of the statements writing a field of the cell
CellWrites == { k \in 1..Len(lowOut.stmts) : WritesCellField(lowOut.stmts[k]) }

\* The positions of the statements writing the discriminant of the cell
DiscriminantWrites ==
    { k \in CellWrites : lowOut.stmts[k].lhs.path[1] = encode_discriminant_field }

\* The lowering ends with the assignment of the cell to the destination
EndsWithCellAssigned ==
    lowOut.stmts[Len(lowOut.stmts)] =
        assign(encode_place(lowIn.stmt.lhs).expr, PlaceExpr(AggregateCell),
               is_place_encoded_as_local_var(lowIn.stmt.lhs))

\* For a multi-variant type the discriminant of the cell is written once, to
\* the variant index, before any field of the cell
DiscriminantFirst ==
    IF Len(AdtVariants(lowIn.stmt.rv.agg.ty)) > 1
    THEN /\ Cardinality(DiscriminantWrites) = 1
         /\ \A d \in DiscriminantWrites :
               /\ lowOut.stmts[d].rhs = ConstExpr(lowIn.stmt.rv.agg.variant)
               /\ \A k \in CellWrites : d <= k
    ELSE DiscriminantWrites = {}

\* C13 as stated: constructing the two-field tuple struct lowers to exactly
\* one allocation statement and exactly two field assignments, one per field in
\* operand order, the second field named by its 1-based number, followed by the
\* assignment of the cell to the destination; for a multi-variant type the
\* discriminant is written before any field.
C13_OneAllocTwoWrites ==
    /\ TupleStructLowered =>
          /\ Cardinality(StmtsOfKind("new")) = 1
          /\ Cardinality(StmtsOfKind("field_assign")) = 2
          /\ Len(AggregateWrites) = 2
          /\ AggregateWrites[2].lhs.path[1] = FieldName("struct", 0, "2")
          /\ EndsWithCellAssigned
    /\ (AggregateLowered /\ lowIn.stmt.rv.agg.ak = "Adt") => DiscriminantFirst

\* The operands of the lowered statement that are moved out of a local
MovedLocals ==
    { k \in 1..Len(lowIn.stmt.rv.operands) :
         /\ lowIn.stmt.rv.operands[k].ok = "Move"
         /\ is_place_encoded_as_local_var(lowIn.stmt.rv.operands[k].place) }

\* C13, amended: constructing the two-field tuple struct allocates the cell
\* once, in the first statement, writes exactly two fields of the cell, in
\* operand order, named struct_0 and struct_1 after rustc's 0-based field names,
\* and ends with the assignment of the cell to the destination; these are the
\* only allocation and the only field assignments when both operands are moved
\* out of locals, while a copied or constant operand adds its own allocation and
\* field writes; for a multi-variant type the discriminant of the cell is
\* written before any field of the cell.
C13_OneCellTwoFields ==
    /\ TupleStructLowered =>
          /\ lowOut.stmts[1].s = "new"
          /\ { k \in StmtsOfKind("new") : lowOut.stmts[k].lhs = AggregateCell } = {1}
          /\ Len(AggregateWrites) = 2
          /\ AggregateWrites[1].lhs.path[1] = FieldName("struct", 0, "0")
          /\ AggregateWrites[2].lhs.path[1] = FieldName("struct", 0, "1")
          /\ EndsWithCellAssigned
          /\ (Cardinality(MovedLocals) = 2) =>
                /\ Cardinality(StmtsOfKind("new")) = 1
                /\ Cardinality(StmtsOfKind("field_assign")) = 2
          /\ (\E k \in 1..2 : lowIn.stmt.rv.operands[k].ok # "Move") =>
                /\ Cardinality(StmtsOfKind("new")) > 1
                /\ Cardinality(StmtsOfKind("field_assign")) > 2
    /\ (AggregateLowered /\ lowIn.stmt.rv.agg.ak = "Adt") => DiscriminantFirst

\* The tuple struct was constructed from two operands moved out of locals
C13_Witness ==
    /\ TupleStructLowered
    /\ Cardinality(MovedLocals) = 2
    /\ Len(lowOut.stmts) = 6

\* A checked addition into a local of tuple type was lowered
CheckedAddLowered ==
    /\ lowIn.what = "statement"
    /\ lowIn.stmt.kind = "Assign"
    /\ lowIn.stmt.rv.rk = "CheckedBinaryOp"
    /\ lowIn.stmt.rv.op = "Add"
    /\ is_place_encoded_as_local_var(lowIn.stmt.lhs)
    /\ TyKind(get_rust_local_ty(lowIn.stmt.lhs.local)) = "TyTuple"
    /\ lowOut.done
    /\ lowOut.ok

\* The positions of the statements of lowOut that write: assignments and
\* allocations
WriteStmts ==
    StmtsOfKind("field_assign") \cup StmtsOfKind("local_var_assign") \cup StmtsOfKind("new")

\* The value field under field tuple_<k> of the destination of the statement
CheckedResultField(k) ==
    field_access(field_access(encode_local(lowIn.stmt.lhs.local), TupleField(k)),
                 encode_value_field(TupleElems(get_rust_local_ty(lowIn.stmt.lhs.local))[k + 1]))

\* The first two statements assign the value field under tuple_0, then the
\* value field under tuple_1
ValueThenCheckWritten ==
    /\ Len(lowOut.stmts) >= 2
    /\ lowOut.stmts[1].s = "field_assign"
    /\ lowOut.stmts[1].lhs = CheckedResultField(0)
    /\ lowOut.stmts[2].s = "field_assign"
    /\ lowOut.stmts[2].lhs = CheckedResultField(1)

\* C14 as stated: lowering a checked addition into a 2-tuple-shaped local
\* emits exactly two field assignments, into the value field under tuple_0 and
\* then into the value field under tuple_1, and no other write statement,
\* whether its operands are constant, copied or moved.
C14_TwoWritesOnly ==
    CheckedAddLowered =>
        /\ ValueThenCheckWritten
        /\ WriteStmts = {1, 2}

\* The statements nulling the places of the moved operands, left before right
RECURSIVE NullingsFrom(_)
NullingsFrom(k) ==
    IF k > Len(lowIn.stmt.rv.operands) THEN NoStmts
    ELSE (IF lowIn.stmt.rv.operands[k].ok = "Move"
          THEN <<NullingOf(lowIn.stmt.rv.operands[k])>>
          ELSE NoStmts)
         \o NullingsFrom(k + 1)

\* C14, amended: lowering a checked addition into a 2-tuple-shaped local emits
\* first the assignment of the sum of the two operand values to the value field
\* under tuple_0, then the assignment of the check expression, which is the
\* literal true whatever the operands, to the value field under tuple_1; the
\* only other statements are the assignments of null to the places of the moved
\* operands, left before right, after the two; no temporary is allocated, and
\* constant and copied operands add no statement.
C14_TwoWritesThenNulling ==
    CheckedAddLowered =>
        /\ ValueThenCheckWritten
        /\ lowOut.stmts[1].rhs.e = "Add"
        /\ lowOut.stmts[2].rhs = true_lit
        /\ SubSeq(lowOut.stmts, 3, Len(lowOut.stmts)) = NullingsFrom(1)
        /\ StmtsOfKind("new") = {}
        /\ lowOut.fresh = 0
        /\ (\A k \in 1..2 : lowIn.stmt.rv.operands[k].ok # "Move") => WriteStmts = {1, 2}

\* A checked addition of a moved and a copied operand was lowered
C14_Witness ==
    /\ CheckedAddLowered
    /\ lowIn.stmt.rv.operands[1].ok = "Move"
    /\ lowIn.stmt.rv.operands[2].ok = "Copy"
    /\ Len(lowOut.stmts) = 3

\* A call of a function item that is neither the assertion helper nor
\* begin_panic was lowered
OrdinaryCallLowered ==
    /\ lowIn.what = "terminator"
    /\ lowIn.term.tk = "Call"
    /\ lowIn.term.func \notin {"prusti_contracts::internal::__assertion",
                               "std::rt::begin_panic"}
    /\ lowOut.done

\* What the arguments of the lowered call, from argument k on, give when they
\* are encoded one after the other: their effects before in argument order,
\* their values, their effects after in argument order
RECURSIVE ArgumentEffects(_, _)
ArgumentEffects(k, fresh) ==
    IF k > Len(lowIn.term.args)
    THEN [before |-> NoStmts, values |-> NoExprs, after |-> NoStmts]
    ELSE With(encode_operand(lowIn.term.args[k], fresh), LAMBDA enc :
         With(ArgumentEffects(k + 1, enc.fresh), LAMBDA rest :
             [before |-> enc.before \o rest.before,
              values |-> <<enc.value>> \o rest.values,
              after |-> enc.after \o rest.after]))

\* The successor of a call: goto the block of its return edge (the spec block
\* when that target is not registered), Unreachable without a return edge
CallSuccessor ==
    IF Len(lowIn.term.destination) > 0
    THEN SuccGoto(LowTarget(lowIn.term.destination[1].target))
    ELSE SuccUnreachable

\* C17: a call of a statically known function that is neither the assertion
\* helper nor the panic function lowers to the "before" statements of all
\* arguments in argument order, exactly one method call naming the callee with
\* all encoded arguments and the destination place, then the "after"
\* statements of all arguments; its successor is goto the block of the target
\* when the call has a return edge and Unreachable otherwise.
C17_CallLowering ==
    OrdinaryCallLowered =>
        With(ArgumentEffects(1, 0), LAMBDA effects :
            /\ lowOut.ok
            /\ Cardinality(StmtsOfKind("method_call")) = 1
            /\ \A m \in StmtsOfKind("method_call") :
                  /\ SubSeq(lowOut.stmts, 1, m - 1) = effects.before
                  /\ lowOut.stmts[m].name = lowIn.term.func
                  /\ lowOut.stmts[m].args = effects.values
                  /\ lowOut.stmts[m].targets =
                        [d \in 1..Len(lowIn.term.destination) |->
                            encode_place(lowIn.term.destination[d].place).expr]
                  /\ SubSeq(lowOut.stmts, m + 1, Len(lowOut.stmts)) = effects.after
            /\ lowOut.successor = CallSuccessor)

\* A call with a copied and a moved argument and a return edge to a registered
\* block was lowered
C17_Witness ==
    /\ OrdinaryCallLowered
    /\ lowOut.ok
    /\ Len(lowIn.term.args) = 2
    /\ lowIn.term.args[1].ok = "Copy"
    /\ lowIn.term.args[2].ok = "Move"
    /\ lowOut.stmts[Len(lowOut.stmts)] = NullingOf(lowIn.term.args[2])
    /\ lowOut.stmts[1].s = "new"
    /\ Len(lowIn.term.destination) = 1
    /\ lowOut.successor.k = "Goto"
    /\ lowOut.successor.target # SpecBlock(lowIn.registered)

\* A call of the panic function, or of the assertion helper, was lowered
PanicCallLowered ==
    /\ lowIn.what = "terminator"
    /\ lowIn.term.tk = "Call"
    /\ lowIn.term.func = "std::rt::begin_panic"
    /\ lowOut.done

AssertionHelperLowered ==
    /\ lowIn.what = "terminator"
    /\ lowIn.term.tk = "Call"
    /\ lowIn.term.func = "prusti_contracts::internal::__assertion"
    /\ lowOut.done

\* C18: a call of the panic function lowers to exactly a comment and an
\* assertion of false, with no method call; a call of the assertion helper
\* reaching this phase is a fatal error that produces no successor.
C18_PanicAndAssertionHelper ==
    /\ PanicCallLowered =>
          /\ lowOut.ok
          /\ Len(lowOut.stmts) = 2
          /\ lowOut.stmts[1].s = "comment"
          /\ lowOut.stmts[2] = assert(false_lit)
          /\ StmtsOfKind("method_call") = {}
    /\ AssertionHelperLowered =>
          /\ ~lowOut.ok
          /\ lowOut.successor = SuccUndefined
          /\ lowOut.stmts = NoStmts

\* A call of the panic function with a moved argument was lowered
C18_Witness ==
    /\ PanicCallLowered
    /\ lowOut.ok
    /\ \E k \in 1..Len(lowIn.term.args) : lowIn.term.args[k].ok = "Move"
    /\ lowOut.stmts[2] = assert(false_lit)

\* A SwitchInt on a type other than bool was lowered
IntSwitchLowered ==
    /\ lowIn.what = "terminator"
    /\ lowIn.term.tk = "SwitchInt"
    /\ TyKind(lowIn.term.switch_ty) # "TyBool"
    /\ lowOut.done

\* The value of the switched operand as an expression
SwitchedValue ==
    IF lowIn.term.operand.ok = "Constant" THEN ConstExpr(lowIn.term.operand.c)
    ELSE PlaceExpr(eval_place(lowIn.term.operand.place))

\* C23: lowering a SwitchInt on a non-boolean type with n case values yields
\* exactly n (guard, target) pairs in source case order, the i-th guard being
\* the equality of the discriminant temporary with the i-th case value and
\* the i-th target the block mapped from the i-th source target; the default
\* is the block mapped from the last source target; the discriminant is
\* stored into the fresh temporary first, before the statement that nulls a
\* moved operand.
C23_IntSwitchPairs ==
    IntSwitchLowered =>
        /\ lowOut.ok
        /\ lowOut.successor.k = "GotoSwitch"
        /\ Len(lowOut.successor.guards) = Len(lowIn.term.values)
        /\ \A i \in 1..Len(lowIn.term.values) :
              /\ lowOut.successor.guards[i].guard = eq_cmp(DiscrTemp, lowIn.term.values[i])
              /\ lowOut.successor.guards[i].target = LowTarget(lowIn.term.targets[i])
        /\ lowOut.successor.target = LowTarget(lowIn.term.targets[Len(lowIn.term.targets)])
        /\ lowOut.stmts =
              <<local_var_assign(DiscrTemp, SwitchedValue)>>
              \o (IF lowIn.term.operand.ok = "Move"
                  THEN <<NullingOf(lowIn.term.operand)>> ELSE NoStmts)

\* A SwitchInt on a moved integer operand with three case values, the first
\* of them not 0 and its target not registered, was lowered
C23_Witness ==
    /\ IntSwitchLowered
    /\ lowOut.ok
    /\ Len(lowIn.term.values) = 3
    /\ lowIn.term.operand.ok = "Move"
    /\ Len(lowOut.stmts) = 2
    /\ lowOut.successor.guards[1].guard = eq_cmp(DiscrTemp, 2)
    /\ lowOut.successor.guards[1].target = SpecBlock(lowIn.registered)
    /\ lowOut.successor.guards[2].target # SpecBlock(lowIn.registered)

\* An Assert whose real target is a registered block was lowered
AssertLowered ==
    /\ lowIn.what = "terminator"
    /\ lowIn.term.tk = "Assert"
    /\ lowIn.term.target \in DOMAIN RegisteredBlocks(lowIn.registered)
    /\ lowOut.done

\* The temporary the condition of the lowered Assert is assigned to
CondTemp == FreshVar(0)

\* The value of the asserted condition as an expression
AssertedValue ==
    IF lowIn.term.operand.ok = "Constant" THEN ConstExpr(lowIn.term.operand.c)
    ELSE PlaceExpr(eval_place(lowIn.term.operand.place))

Cell(k) == LocalVar("cell", k)

ValueName(e) ==
    CASE e.e = "atom" /\ e.a.t = "place" -> e.a.pl
      [] e.e = "atom" /\ e.a.t = "const" -> LocalVar("const", e.a.c)
      [] e.e = "null" -> LocalVar("null", 0)
      [] OTHER -> LocalVar("expr", 0)

EmptyStore == [store |-> [loc \in {} |-> NoPlace], cells |-> 0]

\* The name of the object the first n fields of a place lead to
RECURSIVE Deref(_, _, _)
Deref(store, place, n) ==
    With(IF n = 0 THEN [var |-> place.var, path |-> NoFields]
         ELSE field_access(Deref(store, place, n - 1), place.path[n]),
         LAMBDA loc : IF loc \in DOMAIN store THEN store[loc] ELSE loc)

\* The location a place is written at: the variable, or the field of the
\* object the place's base leads to
LocationOf(store, place) ==
    IF Len(place.path) = 0 THEN place
    ELSE field_access(Deref(store, place, Len(place.path) - 1),
                      place.path[Len(place.path)])

\* The name of what an expression evaluates to
ValueIn(store, e) ==
    IF e.e = "atom" /\ e.a.t = "place"
    THEN Deref(store, e.a.pl, Len(e.a.pl.path))
    ELSE ValueName(e)

ExecStmt(h, stmt) ==
    CASE stmt.s = "new" ->
            [store |-> MapInsert(h.store, stmt.lhs, Cell(h.cells)), cells |-> h.cells + 1]
      [] stmt.s \in {"local_var_assign", "field_assign"} ->
            [h EXCEPT !.store = MapInsert(h.store, LocationOf(h.store, stmt.lhs),
                                          ValueIn(h.store, stmt.rhs))]
      [] OTHER -> h

RECURSIVE ExecStmts(_, _, _)
ExecStmts(h, stmts, k) ==
    IF k > Len(stmts) THEN h
    ELSE ExecStmts(ExecStmt(h, stmts[k]), stmts, k + 1)

\* The heap after the lowered statements
HeapAfter == ExecStmts(EmptyStore, lowOut.stmts, 1)

\* A discriminant read was lowered
DiscriminantLowered ==
    /\ lowIn.what = "statement"
    /\ lowIn.stmt.kind = "Assign"
    /\ lowIn.stmt.rv.rk = "Discriminant"
    /\ lowOut.done
    /\ lowOut.ok

DiscrDestination == encode_place(lowIn.stmt.lhs)

DiscrSource == encode_place(lowIn.stmt.rv.place).expr

\* The discriminant the source place held before the statement
DiscriminantBefore == field_access(DiscrSource, encode_discriminant_field)

\* After the statements the destination is the one cell allocated and its
\* value field holds the discriminant the source place held before
DestinationHoldsDiscriminantBefore ==
    With(HeapAfter, LAMBDA h :
        /\ h.cells = 1
        /\ Deref(h.store, DiscrDestination.expr, Len(DiscrDestination.expr.path)) = Cell(0)
        /\ ValueIn(h.store, PlaceExpr(field_access(DiscrDestination.expr,
                                                   encode_value_field(DiscrDestination.ty))))
              = DiscriminantBefore)

\* C26 as claimed: lowering a discriminant read performs, in this order, the
\* allocation of a fresh temporary, the copy of the source place's
\* discriminant field into the temporary's value field, the assignment of the
\* temporary to the destination; the value stored is the discriminant the
\* source place held before the statement.
C26_AllocCopyAssign ==
    DiscriminantLowered =>
        /\ Len(lowOut.stmts) = 3
        /\ lowOut.stmts[1].s = "new" /\ lowOut.stmts[1].lhs = FreshVar(0)
        /\ lowOut.stmts[2] =
              field_assign(field_access(FreshVar(0), encode_value_field(DiscrDestination.ty)),
                           PlaceExpr(DiscriminantBefore))
        /\ lowOut.stmts[3] = assign(DiscrDestination.expr, PlaceExpr(FreshVar(0)),
                                    is_place_encoded_as_local_var(lowIn.stmt.lhs))
        /\ DestinationHoldsDiscriminantBefore

\* C26 amended: lowering a discriminant read performs, in this order, the
\* allocation of a fresh temporary, the assignment of the temporary to the
\* destination, the copy of the source place's discriminant field into the
\* value field reached through the destination; the value stored is the
\* discriminant the source place held before the statement, also when the
\* source place and the destination are reached through the same local.
C26_AllocAssignCopy ==
    DiscriminantLowered =>
        /\ Len(lowOut.stmts) = 3
        /\ lowOut.stmts[1].s = "new" /\ lowOut.stmts[1].lhs = FreshVar(0)
        /\ lowOut.stmts[2] = assign(DiscrDestination.expr, PlaceExpr(FreshVar(0)),
                                    is_place_encoded_as_local_var(lowIn.stmt.lhs))
        /\ lowOut.stmts[3] =
              field_assign(field_access(DiscrDestination.expr,
                                        encode_value_field(DiscrDestination.ty)),
                           PlaceExpr(DiscriminantBefore))
        /\ DestinationHoldsDiscriminantBefore

\* The discriminant of a field of a local was read into another field of the
\* same local
C26_Witness ==
    /\ DiscriminantLowered
    /\ lowIn.stmt.lhs.local = lowIn.stmt.rv.place.local
    /\ lowOut.stmts[2].s = "field_assign"
    /\ DestinationHoldsDiscriminantBefore

\* A copy of a place was lowered: Use(Copy(place)) assigned to a destination
CopyLowered ==
    /\ lowIn.what = "statement"
    /\ lowIn.stmt.kind = "Assign"
    /\ lowIn.stmt.rv.rk = "Use"
    /\ lowIn.stmt.rv.operands[1].ok = "Copy"
    /\ lowOut.done
    /\ lowOut.ok

CopiedPlace == encode_place(lowIn.stmt.rv.operands[1].place)

\* The type has no nested cell: its one field holds the payload
IsLeafType(ty) == TyKind(ty) \in {"TyBool", "TyInt", "TyRef"}

\* The nodes of a type's layout tree, each named by the fields leading to it
\* from the root; the tree ends at scalars and at references
RECURSIVE NodePaths(_)
NodePaths(ty) ==
    IF IsLeafType(ty) THEN { NoFields }
    ELSE { NoFields }
         \cup UNION { { <<encode_type_fields(ty)[i].field>> \o sub :
                          sub \in NodePaths(encode_type_fields(ty)[i].ty) } :
                      i \in { j \in 1..Len(encode_type_fields(ty)) :
                                encode_type_fields(ty)[j].ty # "" } }

\* The payload fields of the layout tree, each named by the fields leading to it
RECURSIVE LeafPaths(_)
LeafPaths(ty) ==
    UNION { IF encode_type_fields(ty)[i].ty = "" \/ IsLeafType(ty)
            THEN { <<encode_type_fields(ty)[i].field>> }
            ELSE { <<encode_type_fields(ty)[i].field>> \o sub :
                     sub \in LeafPaths(encode_type_fields(ty)[i].ty) } :
            i \in 1..Len(encode_type_fields(ty)) }

\* The place reached from base by the fields of path
Extend(base, path) == [var |-> base.var, path |-> base.path \o path]

\* The variable the copy is built in
CopyVar == FreshVar(0)

\* In the heap after the statements the copy is a tree of freshly allocated
\* cells, one per node of the layout tree and no two the same, whose payload
\* fields hold what the payload fields of the source held
DeepCopyOfSource ==
    With2(HeapAfter, CopiedPlace, LAMBDA h, src :
        /\ h.cells = Cardinality(NodePaths(src.ty))
        /\ \A np \in NodePaths(src.ty) :
              Deref(h.store, Extend(CopyVar, np), Len(np)) \in { Cell(k) : k \in 0..(h.cells - 1) }
        /\ \A np1, np2 \in NodePaths(src.ty) :
              (np1 # np2) =>
                  Deref(h.store, Extend(CopyVar, np1), Len(np1))
                     # Deref(h.store, Extend(CopyVar, np2), Len(np2))
        /\ \A lp \in LeafPaths(src.ty) :
              Deref(h.store, Extend(CopyVar, lp), Len(lp)) = Extend(src.expr, lp))

\* The field assignments that read the source
SourceReads ==
    { k \in 1..Len(lowOut.stmts) :
        /\ lowOut.stmts[k].s = "field_assign"
        /\ lowOut.stmts[k].rhs.e = "atom"
        /\ lowOut.stmts[k].rhs.a.t = "place"
        /\ lowOut.stmts[k].rhs.a.pl.var = CopiedPlace.expr.var }

\* No statement follows a reference of the copied value: below the source
\* place, val_ref is only ever the last field of a path read
NeverThroughReference ==
    \A k \in SourceReads :
        LET path == lowOut.stmts[k].rhs.a.pl.path
        IN  \A j \in (Len(CopiedPlace.expr.path) + 1)..(Len(path) - 1) :
                path[j].fk # "val_ref"

\* C27: encode_copy terminates for every type whose field-layout tree is
\* finite and emits exactly one allocation per visited layout node; it never
\* recurses through a reference (a reference and a scalar are copied by a
\* single direct field assignment of their payload field), so a recursive type
\* reached only through references is copied in finitely many statements.
C27_CopyOneAllocPerNode ==
    CopyLowered =>
        /\ Cardinality(StmtsOfKind("new"))
              = Cardinality(NodePaths(CopiedPlace.ty))
        /\ Cardinality(SourceReads) = Cardinality(LeafPaths(CopiedPlace.ty))
        /\ NeverThroughReference
        /\ DeepCopyOfSource

\* A value of the recursive struct L was copied: three cells (L, its i32, its
\* reference) and two payload fields, the reference not followed
C27_Witness ==
    /\ CopyLowered
    /\ CopiedPlace.ty = "L"
    /\ Cardinality(StmtsOfKind("new")) = 3
    /\ Cardinality(SourceReads) = 2
    /\ DeepCopyOfSource

(***************************************************************************)
(* Claims about encode, checked under SpecEnc                              *)
(***************************************************************************)
\* The CFG blocks named return
ReturnBlocks ==
    { b \in 1..Len(cfg_method.blocks) : cfg_method.blocks[b].label = Label("return", 0) }

\* The source blocks whose terminator encode has lowered
TerminatorsLowered ==
    { bbi \in 0..(Len(mir.terminators) - 1) :
         /\ Len(mir.terminators[bbi + 1]) = 1
         /\ (pc = "panicked" => bbi + 1 < Len(mir.terminators)) }

\* C7: there is exactly one block named return, its successor is the Return
\* marker, set once and never overwritten, and every source Return terminator
\* lowers to no statements plus a goto to that block.
C7_UniqueReturnBlock ==
    /\ Cardinality(ReturnBlocks) <= 1
    /\ (ids.return = 0) => (ReturnBlocks = {})
    /\ (ids.return # 0) =>
          /\ ReturnBlocks = {ids.return}
          /\ cfg_method.blocks[ids.return].successor = SuccReturn
          /\ cfg_method.blocks[ids.return].set_count = 1
    /\ (pc = "done") => (Cardinality(ReturnBlocks) = 1)
    /\ \A bbi \in TerminatorsLowered :
          (mir.terminators[bbi + 1][1].tk = "Return") =>
              LET block == cfg_method.blocks[cfg_block_of[bbi]]
              IN  /\ block.successor = SuccGoto(ids.return)
                  /\ block.stmts[Len(block.stmts)] = comment("terminator")
                  /\ block.set_count = 1

\* encode has finished a procedure with a Return terminator in a block that
\* is not the last one walked
C7_Witness ==
    /\ pc = "done"
    /\ mir.n >= 2
    /\ mir.terminators[1] = <<Return>>
    /\ cfg_method.blocks[cfg_block_of[0]].successor = SuccGoto(ids.return)
    /\ cfg_method.blocks[ids.return].successor = SuccReturn

\* C8 as stated: when encode finalizes the method, every block it created has
\* exactly one successor attached, whatever the source CFG, one with no walked
\* block or with a block lacking a terminator included.
C8_EveryBlockOneSuccessor ==
    (pc \in {"to_ast", "done"}) =>
        \A b \in 1..Len(cfg_method.blocks) :
            /\ cfg_method.blocks[b].set_count = 1
            /\ cfg_method.blocks[b].successor # SuccUndefined

\* The positions of the events in the log
Positions(events) == { k \in 1..Len(log) : log[k] \in events }

\* Every event of `first` in the log comes before every event of `then`
AllBefore(first, then) ==
    \A a \in Positions(first), b \in Positions(then) : a < b

\* All CFG blocks exist and cfg_blocks maps every walked source block
SkeletonComplete ==
    /\ Len(cfg_method.blocks) = mir.n + 4
    /\ DOMAIN cfg_block_of = 0..(mir.n - 1)

\* C9 as stated, its first part: all blocks and the complete block map exist
\* before the contract is computed.
C9_ContractAfterSkeleton ==
    (Positions({ContractEvent}) # {}) => SkeletonComplete

\* C9, amended: the contract is computed first, before any block exists; then
\* all blocks and the complete block map are built before any inhale or exhale
\* is emitted, all inhales and exhales are emitted before any statement is
\* lowered, and the statements of every source block are lowered before any
\* terminator is lowered.
C9_PhasesInOrder ==
    /\ (Len(log) > 0) => (Positions({ContractEvent}) = {1})
    /\ (Len(cfg_method.blocks) > 0) => (Positions({ContractEvent}) = {1})
    /\ AllBefore({"add_block"}, {"inhale", "exhale"})
    /\ (Positions({"inhale", "exhale"}) # {}) => SkeletonComplete
    /\ AllBefore({"inhale", "exhale"}, {"encode_statement"})
    /\ (Positions({"encode_statement"}) # {}) => (Positions({"exhale"}) # {})
    /\ AllBefore({"encode_statement"}, {"encode_terminator"})
    /\ (Positions({"encode_terminator"}) # {}) => (Len(mir.statements) = mir.n)

\* encode has finished a procedure for which it emitted an inhale and lowered
\* statements and terminators of two blocks
C9_Witness ==
    /\ pc = "done"
    /\ mir.n >= 2
    /\ Positions({"inhale"}) # {}
    /\ Cardinality(Positions({"encode_statement"})) >= 2
    /\ Cardinality(Positions({"encode_terminator"})) >= 2


\* The statements of kind s in CFG block b, in order
BlockStmtsOfKind(b, s) ==
    SelectSeq(cfg_method.blocks[b].stmts, LAMBDA stmt : stmt.s = s)

\* encode has emitted the contract: it is past the postcondition, or it
\* failed, which it does only later
ContractEmitted ==
    \/ pc = "panicked"
    \/ pc \in { PhaseOrder[k] : k \in (PhaseIndex("post") + 1)..Len(PhaseOrder) }

\* C16: once the contract is emitted, the start block holds exactly one inhale
\* per formal parameter, in order, the return block holds exactly one exhale,
\* for the return local, each of the full permission to the predicate of the
\* local's static type, and no block holds any other inhale or exhale; before
\* that no block holds any.
C16_OneInhalePerArgOneExhale ==
    /\ ContractEmitted =>
          /\ BlockStmtsOfKind(ids.start, "inhale") =
                [k \in 1..mir.arg_count |->
                    StmtOf("inhale", NoPlace, PlaceExpr(encode_local(k)),
                           encode_type_predicate_use(get_rust_local_ty(k)),
                           <<full_perm>>, NoPlaces, NoFields)]
          /\ BlockStmtsOfKind(ids.return, "exhale") =
                <<StmtOf("exhale", NoPlace, PlaceExpr(encode_local(0)),
                         encode_type_predicate_use(get_rust_local_ty(0)),
                         <<full_perm>>, NoPlaces, NoFields)>>
          /\ \A b \in 1..Len(cfg_method.blocks) :
                /\ b # ids.start => BlockStmtsOfKind(b, "inhale") = NoStmts
                /\ b # ids.return => BlockStmtsOfKind(b, "exhale") = NoStmts
    /\ ~ContractEmitted =>
          \A b \in 1..Len(cfg_method.blocks) :
              /\ b # ids.start => BlockStmtsOfKind(b, "inhale") = NoStmts
              /\ b # ids.return => BlockStmtsOfKind(b, "exhale") = NoStmts
              /\ pc # "post" => BlockStmtsOfKind(b, "inhale") = NoStmts
              /\ BlockStmtsOfKind(b, "exhale") = NoStmts

\* encode has finished a procedure of two parameters whose blocks hold lowered
\* statements
C16_Witness ==
    /\ pc = "done"
    /\ mir.arg_count = 2
    /\ Len(BlockStmtsOfKind(ids.start, "inhale")) = 2
    /\ Len(BlockStmtsOfKind(ids.return, "exhale")) = 1
    /\ \E bbi \in DOMAIN cfg_block_of :
          BlockStmtsOfKind(cfg_block_of[bbi], "local_var_assign") # NoStmts

\* The statement kinds and rvalue kinds encode_statement has an arm for, and
\* the terminator kinds encode_terminator has an arm for
SupportedStatementKinds == {"StorageDead", "StorageLive", "EndRegion", "Assign"}

SupportedRvalueKinds ==
    {"Use", "BinaryOp", "CheckedBinaryOp", "Discriminant", "Aggregate", "Ref"}

SupportedTerminatorKinds ==
    {"Return", "Goto", "SwitchInt", "Unreachable", "Abort", "Drop", "FalseEdges",
     "FalseUnwind", "DropAndReplace", "Call", "Assert"}

UnsupportedStatement(stmt) ==
    \/ stmt.kind \notin SupportedStatementKinds
    \/ stmt.kind = "Assign" /\ stmt.rv.rk \notin SupportedRvalueKinds

UnsupportedTerminator(term) == term.tk \notin SupportedTerminatorKinds

\* A statement or a terminator of an unsupported kind was read by encode
UnsupportedRead ==
    \/ \E b \in 1..Len(mir.statements) : \E k \in 1..Len(mir.statements[b]) :
          UnsupportedStatement(mir.statements[b][k])
    \/ \E b \in 1..Len(mir.terminators) : \E k \in 1..Len(mir.terminators[b]) :
          UnsupportedTerminator(mir.terminators[b][k])

\* C19: encoding is all-or-nothing: once a statement or terminator of an
\* unsupported kind (unary op, nullary op, indirect call, Resume, Yield,
\* GeneratorDrop, any unlisted kind) was read, encode has ended in a fatal
\* error: the walk did not go on past the construct, and to_ast was not
\* called, so no method, partially built or other, is returned.
C19_AllOrNothing ==
    UnsupportedRead =>
        /\ pc = "panicked"
        /\ \A k \in 1..Len(log) : log[k] # "to_ast"

\* encode ended in a fatal error at an unsupported statement that follows a
\* supported one in the second walked block, after the first block was lowered
C19_Witness ==
    /\ pc = "panicked"
    /\ Len(mir.statements) = 2
    /\ Len(mir.statements[2]) = 2
    /\ ~UnsupportedStatement(mir.statements[2][1])
    /\ UnsupportedStatement(mir.statements[2][2])
    /\ Len(cfg_method.blocks) > 0

\* encode ended in a fatal error at an unsupported terminator
C19_WitnessTerminator ==
    /\ pc = "panicked"
    /\ \E b \in 1..Len(mir.terminators) :
          /\ Len(mir.terminators[b]) = 1
          /\ mir.terminators[b][1].tk \in {"Yield", "GeneratorDrop", "CallIndirect"}

\* The blocks with a given label
BlocksLabelled(lbl) ==
    { b \in 1..Len(cfg_method.blocks) : cfg_method.blocks[b].label = lbl }

\* The spec block and the abort block exist once each, under the indices encode
\* keeps for them, with successor Unreachable set once, and the spec block
\* holds its two comments only
SyntheticBlocksOnce ==
    /\ BlocksLabelled(Label("spec", 0)) = {ids.spec}
    /\ BlocksLabelled(Label("abort", 0)) = {ids.abort}
    /\ ids.spec # ids.abort
    /\ cfg_method.blocks[ids.spec].successor = SuccUnreachable
    /\ cfg_method.blocks[ids.spec].set_count = 1
    /\ cfg_method.blocks[ids.abort].successor = SuccUnreachable
    /\ cfg_method.blocks[ids.abort].set_count = 1
    /\ cfg_method.blocks[ids.spec].stmts =
          <<comment("========== spec =========="), comment("This should never be reached.")>>

\* The abort block is the successor of every lowered Abort terminator and the
\* default of every lowered Assert, and the guarded target of none
AbortIsPanicTarget ==
    \A bbi \in TerminatorsLowered :
        LET block == cfg_method.blocks[cfg_block_of[bbi]]
        IN  /\ (mir.terminators[bbi + 1][1].tk = "Abort") =>
                  block.successor = SuccGoto(ids.abort)
            /\ (mir.terminators[bbi + 1][1].tk = "Assert") =>
                  /\ block.successor.k = "GotoSwitch"
                  /\ block.successor.target = ids.abort
                  /\ \A g \in 1..Len(block.successor.guards) :
                        block.successor.guards[g].target # ids.abort

\* The assertions the abort block holds
AbortAssertions ==
    { cfg_method.blocks[ids.abort].stmts[k].rhs :
        k \in { j \in 1..Len(cfg_method.blocks[ids.abort].stmts) :
                  cfg_method.blocks[ids.abort].stmts[j].s = "assert" } }

\* C25 as claimed: in every finalized method the abort block asserts the false
\* and the true sentinel and has successor Unreachable, the spec block has
\* successor Unreachable, both are created exactly once and receive no
\* statement from body or terminator lowering, and the abort block is the
\* successor of every source Abort terminator and the default of every Assert.
C25_AbortAssertsFalseAndTrue ==
    (pc = "done") =>
        /\ SyntheticBlocksOnce
        /\ AbortIsPanicTarget
        /\ AbortAssertions = {false_lit, true_lit}

\* C25 amended: in every finalized method the abort block holds, after its two
\* comments, the one statement assert(true) and no assertion of false, and has
\* successor Unreachable; the spec block has successor Unreachable; both are
\* created exactly once and hold at the end the statements they were created
\* with; the abort block is the successor of every source Abort terminator and
\* the default of every Assert.
C25_AbortAssertsTrueOnly ==
    (pc = "done") =>
        /\ SyntheticBlocksOnce
        /\ AbortIsPanicTarget
        /\ cfg_method.blocks[ids.abort].stmts =
              <<comment("========== abort =========="),
                comment("Target of any Rust panic."),
                assert(true_lit)>>
        /\ AbortAssertions = {true_lit}

\* encode has finished a procedure of two blocks, one ending in Abort and one
\* in an Assert, whose statements were lowered into their own blocks
C25_Witness ==
    /\ pc = "done"
    /\ mir.n = 2
    /\ \A b \in 1..2 : Len(mir.terminators[b]) = 1
    /\ \E b1, b2 \in 1..2 :
          /\ mir.terminators[b1][1].tk = "Abort"
          /\ mir.terminators[b2][1].tk = "Assert"
          /\ cfg_method.blocks[cfg_block_of[b1 - 1]].successor = SuccGoto(ids.abort)
          /\ cfg_method.blocks[cfg_block_of[b2 - 1]].successor.target = ids.abort
          /\ Len(cfg_method.blocks[cfg_block_of[b2 - 1]].stmts) > 2

(***************************************************************************)
(* Claims about PrustiError, checked under SpecErr                         *)
(***************************************************************************)
\* The messages of the errors internal() creates, and of those unsupported()
\* creates
InternalMessages == { "[Prusti internal error] " \o message : message \in Messages }

UnsupportedMessages ==
    { "[Prusti: unsupported feature] " \o message : message \in Messages }

\* C15 as stated: an error created by internal() is reported as an error,
\* never as a warning, after any sequence of the public operations on it and
\* under every configuration; only an error created by unsupported() is ever
\* reported as a warning.
C15_InternalNeverWarning ==
    \A k \in 1..Len(reported) :
        /\ reported[k].message \in InternalMessages => reported[k].level = "error"
        /\ reported[k].level = "warning" => reported[k].message \in UnsupportedMessages

(***************************************************************************)
(* Claims about the amount of a Perm, checked under SpecAmount             *)
(***************************************************************************)
\* The perm a call returns when it replaces the amount and nothing else
WithAmount(perm, amount) ==
    [kind |-> perm.kind, place |-> perm.place, amount |-> amount]

\* init_perm_amount panics exactly when its argument is Unset or the perm
\* holds another amount than Unset and the argument; otherwise it sets the
\* amount of an Unset perm and returns any other perm as it is.
InitPermAmountContract ==
    owned.last = "init" =>
        /\ owned.panicked <=>
              (\/ owned.arg = "Unset"
               \/ owned.before.amount \notin {"Unset", owned.arg})
        /\ ~owned.panicked /\ owned.before.amount = "Unset" =>
              owned.perm = WithAmount(owned.before, owned.arg)
        /\ ~owned.panicked /\ owned.before.amount = owned.arg =>
              owned.perm = owned.before

\* update_perm_amount panics exactly when the perm's amount or its argument
\* is Unset; otherwise it replaces the amount and nothing else.
UpdatePermAmountContract ==
    owned.last = "update" =>
        /\ owned.panicked <=>
              (owned.before.amount = "Unset" \/ owned.arg = "Unset")
        /\ ~owned.panicked =>
              owned.perm = WithAmount(owned.before, owned.arg)

\* C28: init_perm_amount(new) panics unless new is Read or Write; on an Unset
\* perm it returns the same kind and place with amount new, on a perm whose
\* amount is new it returns the perm as it is, and on any other perm it
\* panics; update_perm_amount panics unless the perm's amount and new are
\* both Read or Write, and replaces the amount only; so a perm returned by
\* either, after any sequence of calls, never has amount Unset.
C28_AmountNeverUnset ==
    /\ InitPermAmountContract
    /\ UpdatePermAmountContract
    /\ owned.ops > 0 /\ ~owned.panicked => owned.perm.amount # "Unset"

\* An Unset predicate perm was initialised, initialised again with the same
\* amount, and then updated to the other amount.
C28_Witness ==
    /\ owned.ops = 3
    /\ owned.last = "update"
    /\ ~owned.panicked
    /\ owned.before = pred(<<"x", "f">>, "Read")
    /\ owned.perm = pred(<<"x", "f">>, "Write")

(***************************************************************************)
(* Claims about SupportStatus, checked under SpecSupport                   *)
(***************************************************************************)
\* Exactly one of the three queries holds of the status
ExactlyOneStatus(self) ==
    /\ is_supported(self) \/ is_partially_supported(self) \/ is_unsupported(self)
    /\ ~(is_supported(self) /\ is_partially_supported(self))
    /\ ~(is_supported(self) /\ is_unsupported(self))
    /\ ~(is_partially_supported(self) /\ is_unsupported(self))

\* The last call did not move the status back
NeverBack ==
    /\ is_unsupported(support_status.before) =>
          is_unsupported(support_status.status)
    /\ is_partially_supported(support_status.before) =>
          ~is_supported(support_status.status)

\* interesting() left both sets of restrictions as they were
InterestingKeepsStatus ==
    support_status.last = "interesting" =>
        /\ support_status.status.restrictions =
              support_status.before.restrictions
        /\ support_status.status.precise_restrictions =
              support_status.before.precise_restrictions

\* restrictions holds the reason strings of precise_restrictions, each under
\* the kind of its precise restriction, and nothing else
RestrictionsAgree(self) ==
    self.restrictions =
        { [kind |-> r.kind, reason |-> r.reason.reason] :
              r \in self.precise_restrictions }

\* C30: after any sequence of partially, unsupported and interesting calls
\* exactly one of is_supported, is_partially_supported and is_unsupported
\* holds; no call moves the status back from unsupported, or from partially
\* supported to supported; interesting() changes no restriction; and
\* restrictions holds exactly the reason strings of precise_restrictions
\* under the same kinds.
C30_StatusForwardOnly ==
    /\ ExactlyOneStatus(support_status.status)
    /\ NeverBack
    /\ InterestingKeepsStatus
    /\ RestrictionsAgree(support_status.status)

\* interesting() was called on an unsupported status that holds one reason
\* string at two positions.
C30_Witness ==
    /\ support_status.last = "interesting"
    /\ is_unsupported(support_status.status)
    /\ support_status.status.interestings # {}
    /\ Cardinality(support_status.status.restrictions)
          < Cardinality(support_status.status.precise_restrictions)

\* A partially supported status became unsupported.
C30_WitnessForward ==
    /\ support_status.last = "unsupported"
    /\ is_partially_supported(support_status.before)
    /\ is_unsupported(support_status.status)

====
